---- MODULE Spec2Model ----
(***************************************************************************)
(* CookTube: the timeline integrator of cooktube-api                       *)
(* (src/cooktube-api/src/lib/timeline-integrator.ts).                      *)
(*                                                                         *)
(* TimelineIntegrator.integrate sorts a copy of the analysed frames by     *)
(* timestamp, aggregates ingredients and tools, groups the frames into     *)
(* timeline segments by action continuity, and derives the cooking phases. *)
(* Strings are sequences of one-character strings, so that toLowerCase,    *)
(* trim and includes are computed rather than assumed.                     *)
(***************************************************************************)
EXTENDS Integers, Sequences, FiniteSets, TLC

VARIABLES
    frameResults,    \* the caller's array handed to integrate
    pc,              \* position of the caller / of integrate
    calls,           \* number of integrate calls started
    sortedFrames,    \* integrate: const sortedFrames
    allIngredients,  \* integrate: Map<string, IngredientInfo>, in insertion order
    allTools,        \* integrate: Set<string>, in insertion order
    i,               \* createTimelineSegments: loop index (1-based)
    segments,        \* createTimelineSegments: const segments
    currentSegment,  \* createTimelineSegments: let currentSegment (NoSegment = null)
    dropped,         \* history: key frames of the candidates that were discarded
    results          \* history: the values integrate returned, oldest first

VARIABLES
    frameLabels,        \* analyzeFrame: const labels (detectGeneralLabels)
    frameCustomLabels,  \* analyzeFrame: const customLabels (detectCustomLabels)
    analyzerPc,         \* position of analyzeFrame
    shortMode,          \* analyzeFrame: parameter isShortVideo of the running call
    frameIngredients,   \* analyzeFrame: const ingredients
    frameTools,         \* analyzeFrame: const tools
    analyses            \* history: the last result analyzeFrame returned per mode

VARIABLES
    transcriptionText,      \* processVideo: const transcriptionText
    frameAnalysisResult,    \* processVideo: let frameAnalysisResult (<< >> = null)
    processorPc,            \* position of integrateAudioVisualAnalysis
    audioKeywords,          \* integrateAudioVisualAnalysis: const audioKeywords
    integratedIngredients,  \* integrateAudioVisualAnalysis: const integratedIngredients
    audioSteps,             \* integrateAudioVisualAnalysis: const audioSteps
    integratedAnalysis      \* processVideo: let integratedAnalysis (<< >> = null)

VARIABLES
    pipeline,         \* which processVideo of recipe-processor.ts runs the job
    jobStatus,        \* processingJob.status ("none": no job created yet)
    jobProgress,      \* processingJob.progressPercent
    jobError,         \* processingJob.errorMessage ("": undefined)
    jobPc,            \* position of the background processVideo: before its
                      \* start, at a step of the try block, in the catch block,
                      \* rejected, settled or resolved
    caughtError,      \* processVideo: the error of the catch block ("": none)
    generatedRecipe,  \* processVideo: let generatedRecipe ("none": unassigned)
    recipeSaved,      \* a recipe row was created for the job
    cancelPc,         \* position of cancelJob
    degraded,         \* history: the steps whose failure was caught and passed over
    writes            \* history: the updates updateJobStatus wrote, oldest first

VARIABLES
    requireAuth,      \* AuthGuard: prop requireAuth
    redirectTo,       \* AuthGuard: prop redirectTo
    isLoading,        \* useAuth(): isLoading
    isAuthenticated,  \* useAuth(): isAuthenticated
    rendered,         \* what the last render of AuthGuard returned
    renders           \* history: number of renders

integratorVars == << frameResults, pc, calls, sortedFrames, allIngredients, allTools,
                     i, segments, currentSegment, dropped, results >>

analyzerVars == << frameLabels, frameCustomLabels, analyzerPc, shortMode,
                   frameIngredients, frameTools, analyses >>

processorVars == << transcriptionText, frameAnalysisResult, processorPc, audioKeywords,
                    integratedIngredients, audioSteps, integratedAnalysis >>

jobVars == << pipeline, jobStatus, jobProgress, jobError, jobPc, caughtError,
              generatedRecipe, recipeSaved, cancelPc, degraded, writes >>

guardVars == << requireAuth, redirectTo, isLoading, isAuthenticated, rendered, renders >>

vars == << integratorVars, analyzerVars, processorVars, jobVars, guardVars >>

\* what the steps of one component leave alone
outsideIntegrator == << analyzerVars, processorVars, jobVars, guardVars >>
outsideAnalyzer == << integratorVars, processorVars, jobVars, guardVars >>
outsideProcessor == << integratorVars, analyzerVars, jobVars, guardVars >>

\* the integrator before its first call
IntegratorIdle ==
    /\ pc = "idle"
    /\ calls = 0
    /\ sortedFrames = << >>
    /\ allIngredients = << >>
    /\ allTools = << >>
    /\ i = 1
    /\ segments = << >>
    /\ currentSegment = << >>
    /\ dropped = { }
    /\ results = << >>

\* the processor before integrateAudioVisualAnalysis is reached
ProcessorIdle ==
    /\ processorPc = "idle"
    /\ audioKeywords = << >>
    /\ integratedIngredients = << >>
    /\ audioSteps = << >>
    /\ integratedAnalysis = << >>

\* the service before startProcessing has created a job
JobIdle ==
    /\ pipeline = "aws"
    /\ jobStatus = "none"
    /\ jobProgress = 0
    /\ jobError = ""
    /\ jobPc = [ at |-> "idle", step |-> 0 ]
    /\ caughtError = ""
    /\ generatedRecipe = "none"
    /\ recipeSaved = FALSE
    /\ cancelPc = "idle"
    /\ degraded = { }
    /\ writes = << >>

\* the mobile client before AuthGuard is rendered, with the default props and
\* the initial state of AuthProvider
GuardIdle ==
    /\ requireAuth = TRUE
    /\ redirectTo = "/(auth)/login"
    /\ isLoading = FALSE
    /\ isAuthenticated = FALSE
    /\ rendered = [ view |-> "none", href |-> "" ]
    /\ renders = 0

\* the analyzer before its first call
AnalyzerIdle ==
    /\ analyzerPc = "idle"
    /\ shortMode = FALSE
    /\ frameIngredients = << >>
    /\ frameTools = << >>
    /\ analyses = [short \in BOOLEAN |-> << >>]

-----------------------------------------------------------------------------
(* Bounds of the model *)

MaxFrames == 3
MaxCalls == 2
MaxLabels == 3
MaxPhaseFrames == 6
MaxSentences == 2
MaxOrderFrames == 4

-----------------------------------------------------------------------------
(* Program constants *)

ACTION_CONTINUITY_THRESHOLD == 5
MIN_SEGMENT_DURATION == 3
CONFIDENCE_THRESHOLD == 70

-----------------------------------------------------------------------------
(* Strings *)

\* the lowercase letter of every uppercase letter
LowerTable ==
    LET UpperLetters == << "A","B","C","D","E","F","G","H","I","J","K","L","M",
                           "N","O","P","Q","R","S","T","U","V","W","X","Y","Z" >>
        LowerLetters == << "a","b","c","d","e","f","g","h","i","j","k","l","m",
                           "n","o","p","q","r","s","t","u","v","w","x","y","z" >>
    IN [c \in { UpperLetters[k] : k \in 1..26 } |->
            LowerLetters[CHOOSE k \in 1..26 : UpperLetters[k] = c]]

LowerChar(c) == IF c \in DOMAIN LowerTable THEN LowerTable[c] ELSE c

ToLowerCase(s) == [k \in 1..Len(s) |-> LowerChar(s[k])]

RECURSIVE TrimStart(_)
TrimStart(s) ==
    IF s # << >> /\ Head(s) = " " THEN TrimStart(Tail(s)) ELSE s

RECURSIVE TrimEnd(_)
TrimEnd(s) ==
    IF s # << >> /\ s[Len(s)] = " " THEN TrimEnd(SubSeq(s, 1, Len(s) - 1)) ELSE s

Trim(s) == TrimEnd(TrimStart(s))

Includes(s, sub) ==
    \E k \in 0..(Len(s) - Len(sub)) : SubSeq(s, k + 1, k + Len(sub)) = sub

RECURSIVE Join(_, _)
Join(list, sep) ==
    IF list = << >> THEN << >>
    ELSE IF Len(list) = 1 THEN list[1]
    ELSE list[1] \o sep \o Join(Tail(list), sep)

RECURSIVE NumberToString(_)
NumberToString(n) ==
    LET Digit(d) == << "0","1","2","3","4","5","6","7","8","9" >>[d + 1]
    IN IF n < 10 THEN << Digit(n) >>
       ELSE NumberToString(n \div 10) \o << Digit(n % 10) >>

Slice(list, from, to) ==
    SubSeq(list, from + 1, IF to < Len(list) THEN to ELSE Len(list))

SeqIncludes(list, x) == \E k \in 1..Len(list) : list[k] = x

\* a string literal as the sequence of its characters
Chars(s) == [k \in 1..Len(s) |-> SubSeq(s, k, k)]




-----------------------------------------------------------------------------
(* Inputs: the frames a caller can hand to integrate *)

\* timestamps (seconds): the gaps 3 and 5 meet MIN_SEGMENT_DURATION and
\* ACTION_CONTINUITY_THRESHOLD exactly, the gaps 2 and 6 miss them
Times == { 0, 3, 5, 11 }
IngTimes == { 0, 3, 11 }

Det(n, c) == [name |-> n, confidence |-> c]
Act(a, c) == [action |-> a, confidence |-> c]

\* detectedActions of one frame, as FrameAnalyzer leaves them (best first)
ActionLists ==
    { << >>,
      << Act(Chars("cutting"), 80) >>,
      << Act(Chars("Chopping"), 85) >> }

\* detectedIngredients and detectedTools of one frame
ContentKinds ==
    { [ing |-> << Det(Chars("Tomato"), 90) >>, tool |-> << Det(Chars("Knife"), 90) >>],
      [ing |-> << Det(Chars(" Tomatoes "), 70) >>, tool |-> << Det(Chars("knife "), 70) >>],
      [ing |-> << Det(Chars("Onions"), 85), Det(Chars("tomato"), 69) >>,
       tool |-> << Det(Chars("Pan"), 69) >>] }

Frame(n, t, acts, kind) ==
    [ frameNumber |-> n,
      timestamp |-> t,
      detectedIngredients |-> kind.ing,
      detectedTools |-> kind.tool,
      detectedActions |-> acts ]

NoContent == [ing |-> << >>, tool |-> << >>]

\* frame lists long enough for two segments, in any order of the timestamps:
\* two frames 3 s apart make a segment, and a segment may start at the
\* timestamp the one before it ends at
OrderInputs ==
    LET cutting == << Act(Chars("cutting"), 80) >>
        shots == { << 0, cutting >>, << 3, cutting >>, << 3, << >> >>, << 6, << >> >> }
    IN UNION { { [k \in 1..n |-> Frame(k, f[k][1], f[k][2], NoContent)] :
                   f \in [1..n -> shots] } : n \in 0..MaxOrderFrames }

\* the main actions of the frames of a cooking video: an inferred one of the
\* preparation (frame-analyzer line 550), one of the cooking (line 561) and a
\* detected label of the finishing
PhaseActionLists ==
    { << Act(Chars("Cutting vegetables"), 85) >>,
      << Act(Chars("Frying"), 80) >>,
      << Act(Chars("plating"), 70) >> }

\* seconds between two extracted frames (config.frameInterval)
frameInterval == 3

\* frame lists as the extraction delivers them: frame k at (k - 1) * frameInterval
PhaseInputs ==
    UNION { { [k \in 1..n |-> Frame(k, (k - 1) * frameInterval, f[k], NoContent)] :
                f \in [1..n -> PhaseActionLists] } : n \in 0..MaxPhaseFrames }

-----------------------------------------------------------------------------
(* integrate: sorting *)

\* insert frame x after every element whose timestamp is <= x's (stable)
RECURSIVE InsertByTimestamp(_, _)
InsertByTimestamp(sorted, x) ==
    IF sorted = << >> THEN << x >>
    ELSE IF Head(sorted).timestamp - x.timestamp > 0
         THEN << x >> \o sorted
         ELSE << Head(sorted) >> \o InsertByTimestamp(Tail(sorted), x)

RECURSIVE SortFrom(_, _)
SortFrom(sorted, rest) ==
    IF rest = << >> THEN sorted
    ELSE SortFrom(InsertByTimestamp(sorted, Head(rest)), Tail(rest))

\* a mutant of SortByTimestamp: the copy is taken but never sorted
UnsortedCopy(frames) == frames

\* [...frameResults].sort((a, b) => a.timestamp - b.timestamp): a stable sort
SortByTimestamp(frames) == SortFrom(<< >>, frames)

-----------------------------------------------------------------------------
(* normalisation *)

pluralMappings ==
    { << Chars("tomatoes"), Chars("tomato") >>, << Chars("potatoes"), Chars("potato") >>,
      << Chars("onions"), Chars("onion") >>, << Chars("carrots"), Chars("carrot") >>, << Chars("eggs"), Chars("egg") >> }

\* a mutant of normalizeIngredientName: the plural table is not consulted
normalizeWithoutPlurals(name) == Trim(ToLowerCase(name))

normalizeIngredientName(name) ==
    LET normalized == Trim(ToLowerCase(name))
    IN  IF \E m \in pluralMappings : m[1] = normalized
        THEN (CHOOSE m \in pluralMappings : m[1] = normalized)[2]
        ELSE normalized

normalizeToolName(name) == Trim(ToLowerCase(name))

commonAmounts ==
    { << Chars("salt"), "to taste" >>, << Chars("pepper"), "to taste" >>,
      << Chars("oil"), "2-3 tablespoons" >>, << Chars("butter"), "2 tablespoons" >>,
      << Chars("garlic"), "2-3 cloves" >>, << Chars("onion"), "1 medium" >> }

estimateIngredientAmount(name, frequency) ==
    LET normalizedName == ToLowerCase(name)
    IN  IF \E m \in commonAmounts : m[1] = normalizedName
        THEN (CHOOSE m \in commonAmounts : m[1] = normalizedName)[2]
        ELSE IF frequency > 10 THEN "main ingredient"
        ELSE IF frequency > 5 THEN "moderate amount"
        ELSE "small amount"

-----------------------------------------------------------------------------
(* aggregateIngredients, aggregateTools *)

\* the Map is a sequence of entries [key, info] in insertion order
MapHas(map, key) == \E k \in 1..Len(map) : map[k].key = key
MapKeys(map) == { map[k].key : k \in 1..Len(map) }
MapGet(map, key) == map[CHOOSE k \in 1..Len(map) : map[k].key = key].info

\* a mutant of PassesThreshold: the comparison excludes the threshold itself
AboveThreshold(confidence) == confidence > CONFIDENCE_THRESHOLD

\* the complement of "confidence < CONFIDENCE_THRESHOLD" (the test of line 78)
PassesThreshold(confidence) == ~ (confidence < CONFIDENCE_THRESHOLD)

\* the body of the inner loop of aggregateIngredients for a qualifying ingredient
RecordIngredient(map, ingredient, timestamp) ==
    LET normalizedName == normalizeIngredientName(ingredient.name)
    IN  IF MapHas(map, normalizedName)
        THEN [k \in 1..Len(map) |->
                IF map[k].key = normalizedName
                THEN [map[k] EXCEPT !.info.lastAppearance = timestamp,
                                    !.info.frequency = @ + 1]
                ELSE map[k]]
        ELSE Append(map, [ key |-> normalizedName,
                           info |-> [ name |-> ingredient.name,
                                      firstAppearance |-> timestamp,
                                      lastAppearance |-> timestamp,
                                      frequency |-> 1 ] ])

RECURSIVE AggregateFrameIngredients(_, _, _)
AggregateFrameIngredients(map, ingredients, timestamp) ==
    IF ingredients = << >> THEN map
    ELSE AggregateFrameIngredients(
            IF PassesThreshold(Head(ingredients).confidence)
            THEN RecordIngredient(map, Head(ingredients), timestamp)
            ELSE map,
            Tail(ingredients), timestamp)

RECURSIVE AggregateIngredientFrames(_, _)
AggregateIngredientFrames(map, frames) ==
    IF frames = << >> THEN map
    ELSE AggregateIngredientFrames(
            AggregateFrameIngredients(map, Head(frames).detectedIngredients,
                                      Head(frames).timestamp),
            Tail(frames))

\* new Map<string, IngredientInfo>()
NewIngredientMap == << >>

\* lines 98-100: every record receives its estimatedAmount
WithEstimatedAmounts(ingredientMap) ==
    [k \in 1..Len(ingredientMap) |->
        [ key |-> ingredientMap[k].key,
          info |-> [ name |-> ingredientMap[k].info.name,
                     firstAppearance |-> ingredientMap[k].info.firstAppearance,
                     lastAppearance |-> ingredientMap[k].info.lastAppearance,
                     frequency |-> ingredientMap[k].info.frequency,
                     estimatedAmount |->
                         estimateIngredientAmount(ingredientMap[k].key,
                                                  ingredientMap[k].info.frequency) ] ]]

aggregateIngredients(frames) ==
    WithEstimatedAmounts(AggregateIngredientFrames(NewIngredientMap, frames))

\* Set.add: insertion order, no duplicates
SetAdd(set, x) == IF SeqIncludes(set, x) THEN set ELSE Append(set, x)

RECURSIVE AggregateFrameTools(_, _)
AggregateFrameTools(toolSet, tools) ==
    IF tools = << >> THEN toolSet
    ELSE AggregateFrameTools(
            IF Head(tools).confidence >= CONFIDENCE_THRESHOLD
            THEN SetAdd(toolSet, normalizeToolName(Head(tools).name))
            ELSE toolSet,
            Tail(tools))

RECURSIVE AggregateToolFrames(_, _)
AggregateToolFrames(toolSet, frames) ==
    IF frames = << >> THEN toolSet
    ELSE AggregateToolFrames(AggregateFrameTools(toolSet, Head(frames).detectedTools),
                             Tail(frames))

aggregateTools(frames) == AggregateToolFrames(<< >>, frames)

-----------------------------------------------------------------------------
(* createTimelineSegments and its helpers *)

determineMainAction(frame) ==
    IF Len(frame.detectedActions) = 0
    THEN Chars("Preparing")
    ELSE frame.detectedActions[1].action

\* Object.values(actionCategories), in declaration order
actionCategories ==
    << { Chars("cut"), Chars("chop"), Chars("slice"), Chars("dice"), Chars("mince") },
       { Chars("fry"), Chars("boil"), Chars("steam"), Chars("bake"), Chars("grill"), Chars("cook") },
       { Chars("mix"), Chars("stir"), Chars("whisk"), Chars("fold"), Chars("blend") },
       { Chars("wash"), Chars("peel"), Chars("drain"), Chars("prepare") } >>

\* category.some(a => lower.includes(a)), lower being action.toLowerCase()
InCategory(category, lower) == \E a \in category : Includes(lower, a)

areSimilarActions(action1, action2) ==
    LET lower1 == ToLowerCase(action1)
        lower2 == ToLowerCase(action2)
    IN  \/ \E c \in 1..Len(actionCategories) :
              /\ InCategory(actionCategories[c], lower1)
              /\ InCategory(actionCategories[c], lower2)
        \/ lower1 = lower2

\* a mutant of isContinuousAction: a gap equal to the threshold already breaks
isContinuousBelowGap(previousAction, currentAction, currentTime, previousEndTime) ==
    IF currentTime - previousEndTime >= ACTION_CONTINUITY_THRESHOLD
    THEN FALSE
    ELSE areSimilarActions(previousAction, currentAction)

isContinuousAction(previousAction, currentAction, currentTime, previousEndTime) ==
    IF currentTime - previousEndTime > ACTION_CONTINUITY_THRESHOLD
    THEN FALSE
    ELSE areSimilarActions(previousAction, currentAction)

\* a mutant of IsLongEnough: every candidate is kept
AnyDuration(segment) == TRUE

\* the test of lines 135 and 159 on a candidate segment
IsLongEnough(segment) ==
    segment.endTime - segment.startTime >= MIN_SEGMENT_DURATION

RECURSIVE PushNormalized(_, _, _)
PushNormalized(list, detections, ingredientNames) ==
    IF detections = << >> THEN list
    ELSE LET d == Head(detections)
             name == IF ingredientNames THEN normalizeIngredientName(d.name)
                     ELSE normalizeToolName(d.name)
         IN  PushNormalized(
                IF d.confidence >= CONFIDENCE_THRESHOLD /\ ~ SeqIncludes(list, name)
                THEN Append(list, name) ELSE list,
                Tail(detections), ingredientNames)

\* a mutant of updateSegmentContents: the names as the frame spells them,
\* without normalizeIngredientName and normalizeToolName
updateSegmentContentsVerbatim(segment, frame) ==
    LET RECURSIVE Push(_, _)
        Push(list, detections) ==
            IF detections = << >> THEN list
            ELSE Push(IF Head(detections).confidence >= CONFIDENCE_THRESHOLD
                         /\ ~ SeqIncludes(list, Head(detections).name)
                      THEN Append(list, Head(detections).name) ELSE list,
                      Tail(detections))
    IN [segment EXCEPT
            !.ingredients = Push(@, frame.detectedIngredients),
            !.tools = Push(@, frame.detectedTools)]

updateSegmentContents(segment, frame) ==
    [segment EXCEPT
        !.ingredients = PushNormalized(@, frame.detectedIngredients, TRUE),
        !.tools = PushNormalized(@, frame.detectedTools, FALSE)]

generateSegmentDescription(segment) ==
    LET duration == segment.endTime - segment.startTime
        ingredientsList == Join(Slice(segment.ingredients, 0, 3), << ",", " " >>)
        toolsList == Join(Slice(segment.tools, 0, 2), << " ","a","n","d"," " >>)
    IN  segment.mainAction
        \o (IF ingredientsList # << >> THEN << " " >> \o ingredientsList ELSE << >>)
        \o (IF toolsList # << >>
            THEN << " ","u","s","i","n","g"," " >> \o toolsList ELSE << >>)
        \o << " ","(" >> \o NumberToString(duration)
        \o << " ","s","e","c","o","n","d","s",")" >>

\* the object literal of lines 139-147
NewSegment(frame, mainAction) ==
    [ startTime |-> frame.timestamp,
      endTime |-> frame.timestamp,
      mainAction |-> mainAction,
      ingredients |-> << >>,
      tools |-> << >>,
      description |-> << >>,
      keyFrames |-> << frame.frameNumber >> ]

KeyFrameSet(segment) == { segment.keyFrames[k] : k \in 1..Len(segment.keyFrames) }

\* The loop state of createTimelineSegments: segments, the active segment
\* (current: << >> for null, << segment >> otherwise) and, as history, the key
\* frames of the candidates discarded so far.
SegmenterStart == [ segments |-> << >>, current |-> << >>, dropped |-> { } ]

\* the condition of line 133
StartsNewSegment(current, frame) ==
    IF current = << >> THEN TRUE
    ELSE ~ isContinuousAction(current[1].mainAction, determineMainAction(frame),
                              frame.timestamp, current[1].endTime)

\* lines 135-137 and 159-161: push the active segment if it is long enough
PushIfLongEnough(st) ==
    IF st.current = << >> THEN st
    ELSE IF IsLongEnough(st.current[1])
         THEN [st EXCEPT !.segments = Append(@, st.current[1])]
         ELSE [st EXCEPT !.dropped = @ \cup KeyFrameSet(st.current[1])]

\* a mutant of OpenStep: a discarded candidate is merged into its successor
OpenStepMerging(st, frame) ==
    LET fresh == updateSegmentContents(
                     NewSegment(frame, determineMainAction(frame)), frame)
    IN  [ PushIfLongEnough(st) EXCEPT
            !.current =
                IF st.current # << >> /\ ~ IsLongEnough(st.current[1])
                THEN << [fresh EXCEPT
                            !.startTime = st.current[1].startTime,
                            !.keyFrames = st.current[1].keyFrames \o @] >>
                ELSE << fresh >> ]

\* lines 134-147 and 155
OpenStep(st, frame) ==
    [ PushIfLongEnough(st) EXCEPT
        !.current = << updateSegmentContents(
                          NewSegment(frame, determineMainAction(frame)), frame) >> ]

\* lines 149-152 and 155
ExtendStep(st, frame) ==
    [ st EXCEPT
        !.current = << updateSegmentContents(
                          [st.current[1] EXCEPT
                              !.endTime = frame.timestamp,
                              !.keyFrames = Append(@, frame.frameNumber)],
                          frame) >> ]

\* lines 158-166
CloseStep(st) ==
    LET pushed == PushIfLongEnough(st)
    IN  [ pushed EXCEPT
            !.segments = [k \in 1..Len(pushed.segments) |->
                            [pushed.segments[k] EXCEPT
                                !.description =
                                    generateSegmentDescription(pushed.segments[k])]] ]

RECURSIVE SegmentFrames(_, _, _)
SegmentFrames(st, frames, k) ==
    IF k > Len(frames) THEN st
    ELSE SegmentFrames(
            IF StartsNewSegment(st.current, frames[k])
            THEN OpenStep(st, frames[k]) ELSE ExtendStep(st, frames[k]),
            frames, k + 1)

createTimelineSegments(frames) ==
    CloseStep(SegmentFrames(SegmenterStart, frames, 1)).segments

-----------------------------------------------------------------------------
(* identifyCookingPhases *)


prepActions == { Chars("cutting"), Chars("chopping"), Chars("slicing"), Chars("washing"), Chars("peeling") }
cookingActions == { Chars("frying"), Chars("boiling"), Chars("steaming"), Chars("baking"), Chars("grilling"), Chars("cooking") }
finishingActions == { Chars("plating"), Chars("garnishing"), Chars("serving"), Chars("arranging") }

\* a mutant of FilterByActions: the main action is compared as written
FilterCaseSensitive(timeline, actions) ==
    SelectSeq(timeline, LAMBDA seg : \E a \in actions : Includes(seg.mainAction, a))

FilterByActions(timeline, actions) ==
    SelectSeq(timeline,
              LAMBDA seg : \E a \in actions : Includes(ToLowerCase(seg.mainAction), a))

\* a mutant of FindPhase: a phase without segments is an empty placeholder
FindPhasePadded(timeline, actions, label, text) ==
    LET matching == FilterByActions(timeline, actions)
    IN  << [ phase |-> label,
             startTime |-> IF Len(matching) = 0 THEN 0 ELSE matching[1].startTime,
             endTime |-> IF Len(matching) = 0 THEN 0
                         ELSE matching[Len(matching)].endTime,
             description |-> text ] >>

\* a mutant of FindPhase: the phase ends with its first matching segment
FindPhaseFirstSegment(timeline, actions, label, text) ==
    LET matching == FilterByActions(timeline, actions)
    IN  IF Len(matching) = 0 THEN << >>
        ELSE << [ phase |-> label,
                  startTime |-> matching[1].startTime,
                  endTime |-> matching[1].endTime,
                  description |-> text ] >>

\* the shared shape of findPreparationPhase, findCookingPhase, findFinishingPhase:
\* << >> for null, << phase >> otherwise
FindPhase(timeline, actions, label, text) ==
    LET matching == FilterByActions(timeline, actions)
    IN  IF Len(matching) = 0 THEN << >>
        ELSE << [ phase |-> label,
                  startTime |-> matching[1].startTime,
                  endTime |-> matching[Len(matching)].endTime,
                  description |-> text ] >>

findPreparationPhase(timeline) ==
    FindPhase(timeline, prepActions, "Preparation",
              "Preparing ingredients by cutting, washing, and organizing")

findCookingPhase(timeline) ==
    FindPhase(timeline, cookingActions, "Cooking", "Main cooking process")

findFinishingPhase(timeline) ==
    FindPhase(timeline, finishingActions, "Finishing", "Final plating and presentation")

identifyCookingPhases(timeline) ==
    findPreparationPhase(timeline) \o findCookingPhase(timeline)
        \o findFinishingPhase(timeline)

\* sortedFrames[sortedFrames.length - 1]?.timestamp || 0
TotalDuration(frames) ==
    IF Len(frames) = 0 THEN 0 ELSE frames[Len(frames)].timestamp

-----------------------------------------------------------------------------
(* integrate as a function of the caller's array *)

integrate(frames) ==
    LET sorted == SortByTimestamp(frames)
        timeline == createTimelineSegments(sorted)
    IN  [ totalDuration |-> TotalDuration(sorted),
          allIngredients |-> aggregateIngredients(sorted),
          allTools |-> aggregateTools(sorted),
          timeline |-> timeline,
          cookingPhases |-> identifyCookingPhases(timeline) ]

-----------------------------------------------------------------------------
(* The state machine: a caller holding frameResults calls integrate, which *)
(* runs the segmenter one frame at a time                                  *)

\* a mutant of CallerArrayAfterSort: sort() is applied to the caller's array
SortedInPlace(frames) == SortByTimestamp(frames)

\* what line 47 leaves in the caller's array: the spread copies it first
CallerArrayAfterSort(frames) == frames

\* a mutant of InitialIngredients: the map of the previous call is kept
KeptIngredientMap == allIngredients

\* the map aggregateIngredients starts from (line 74)
InitialIngredients == NewIngredientMap

SegmenterState == [ segments |-> segments, current |-> currentSegment,
                    dropped |-> dropped ]

InitWith(inputs) ==
    /\ frameResults \in inputs
    /\ IntegratorIdle
    /\ frameLabels = << >>
    /\ frameCustomLabels = << >>
    /\ AnalyzerIdle
    /\ transcriptionText = << >>
    /\ frameAnalysisResult = << >>
    /\ ProcessorIdle
    /\ JobIdle
    /\ GuardIdle

\* frame lists that vary in timestamps and actions; frame k of the extraction
\* carries frameNumber k
InitSeg ==
    \E n \in 0..MaxFrames : \E f \in [1..n -> Times \X ActionLists] :
        InitWith({ [k \in 1..n |-> Frame(k, f[k][1], f[k][2], NoContent)] })

\* frame lists that vary in timestamps and detected ingredients and tools
InitIng ==
    \E n \in 0..MaxFrames : \E f \in [1..n -> IngTimes \X ContentKinds] :
        InitWith({ [k \in 1..n |-> Frame(k, f[k][1], << >>, f[k][2])] })

\* integrate, lines 45-54: sort a copy, aggregate, enter createTimelineSegments
Integrate ==
    /\ pc \in { "idle", "done" }
    /\ calls < MaxCalls
    /\ calls' = calls + 1
    /\ frameResults' = CallerArrayAfterSort(frameResults)
    /\ sortedFrames' = SortByTimestamp(frameResults)
    /\ allIngredients' =
          WithEstimatedAmounts(
              AggregateIngredientFrames(InitialIngredients, sortedFrames'))
    /\ allTools' = aggregateTools(sortedFrames')
    /\ i' = 1
    /\ segments' = SegmenterStart.segments
    /\ currentSegment' = SegmenterStart.current
    /\ dropped' = SegmenterStart.dropped
    /\ pc' = "segmenting"
    /\ UNCHANGED results
    /\ UNCHANGED outsideIntegrator

\* loop body, lines 133-147 and 155: the frame is not continuous with the
\* active segment (or there is none); close the active one and open a new one
OpenSegment ==
    /\ pc = "segmenting"
    /\ i <= Len(sortedFrames)
    /\ StartsNewSegment(currentSegment, sortedFrames[i])
    /\ LET st == OpenStep(SegmenterState, sortedFrames[i])
       IN  /\ segments' = st.segments
           /\ currentSegment' = st.current
           /\ dropped' = st.dropped
    /\ i' = i + 1
    /\ UNCHANGED << frameResults, pc, calls, sortedFrames, allIngredients, allTools,
                    results >>
    /\ UNCHANGED outsideIntegrator

\* loop body, lines 148-152 and 155: the frame continues the active segment
ExtendSegment ==
    /\ pc = "segmenting"
    /\ i <= Len(sortedFrames)
    /\ ~ StartsNewSegment(currentSegment, sortedFrames[i])
    /\ LET st == ExtendStep(SegmenterState, sortedFrames[i])
       IN  /\ segments' = st.segments
           /\ currentSegment' = st.current
           /\ dropped' = st.dropped
    /\ i' = i + 1
    /\ UNCHANGED << frameResults, pc, calls, sortedFrames, allIngredients, allTools,
                    results >>
    /\ UNCHANGED outsideIntegrator

\* lines 158-168: flush the active segment, render the descriptions
CloseTimeline ==
    /\ pc = "segmenting"
    /\ i > Len(sortedFrames)
    /\ LET st == CloseStep(SegmenterState)
       IN  /\ segments' = st.segments
           /\ dropped' = st.dropped
    /\ pc' = "phases"
    /\ UNCHANGED << frameResults, calls, sortedFrames, allIngredients, allTools,
                    i, currentSegment, results >>
    /\ UNCHANGED outsideIntegrator

\* integrate, lines 57-67: identify the phases and return the record
Return ==
    /\ pc = "phases"
    /\ results' = Append(results,
                         [ totalDuration |-> TotalDuration(sortedFrames),
                           allIngredients |-> allIngredients,
                           allTools |-> allTools,
                           timeline |-> segments,
                           cookingPhases |-> identifyCookingPhases(segments) ])
    /\ pc' = "done"
    /\ UNCHANGED << frameResults, calls, sortedFrames, allIngredients, allTools,
                    i, segments, currentSegment, dropped >>
    /\ UNCHANGED outsideIntegrator

Next == Integrate \/ OpenSegment \/ ExtendSegment \/ CloseTimeline \/ Return

SpecSeg == InitSeg /\ [][Next]_vars
SpecIng == InitIng /\ [][Next]_vars

InitPhases == InitWith(PhaseInputs)
SpecPhases == InitPhases /\ [][Next]_vars

InitOrder == InitWith(OrderInputs)
SpecOrder == InitOrder /\ [][Next]_vars

-----------------------------------------------------------------------------
(* FrameAnalyzer (frame-analyzer.ts): the classification of the labels of  *)
(* one frame into ingredients, tools and actions                           *)

Words(list) == { Chars(list[k]) : k \in 1..Len(list) }

INGREDIENT_KEYWORDS ==
    Words(<< "vegetable", "fruit", "meat", "fish", "seafood", "dairy", "grain",
             "herb", "spice", "bread", "pasta", "rice", "egg", "cheese", "milk",
             "tomato", "onion", "garlic", "carrot", "potato", "chicken", "beef",
             "pork", "salmon", "tuna", "shrimp", "butter", "oil", "salt", "pepper" >>)

TOOL_KEYWORDS ==
    Words(<< "knife", "cutting board", "pan", "pot", "spatula", "spoon", "fork",
             "bowl", "plate", "oven", "stove", "mixer", "blender", "whisk",
             "ladle", "tongs", "peeler", "grater", "colander", "measuring cup" >>)

ACTION_KEYWORDS ==
    Words(<< "cutting", "chopping", "slicing", "dicing", "mincing",
             "cooking", "frying", "boiling", "steaming", "baking", "grilling",
             "mixing", "stirring", "whisking", "folding", "blending",
             "washing", "peeling", "draining", "marinating", "seasoning",
             "serving", "plating", "garnishing", "arranging" >>)

\* words.some(w => name.includes(w))
IncludesSome(name, words) == \E w \in words : Includes(name, w)

\* label.Name?.toLowerCase() || ''  (a missing name is the empty string)
LabelName(label) == ToLowerCase(label.Name)

isLikelyFoodItem(name) ==
    LET foodIndicators ==
            Words(<< "fresh", "raw", "cooked", "fried", "baked", "roasted", "grilled",
                     "chopped", "sliced", "diced", "minced", "organic", "natural",
                     "homemade", "recipe", "ingredient", "seasoning", "flavor" >>)
    IN  IncludesSome(name, foodIndicators)

isLikelyCookingTool(name) ==
    LET toolIndicators ==
            Words(<< "kitchen", "utensil", "appliance", "cookware", "bakeware",
                     "cutlery", "tableware", "equipment", "gadget", "tool" >>)
    IN  IncludesSome(name, toolIndicators)

\* the first entry of an ordered table whose words occur in the name
FirstCategory(table, name) ==
    IF \E k \in 1..Len(table) : IncludesSome(name, table[k][2])
    THEN table[CHOOSE k \in 1..Len(table) :
                  /\ IncludesSome(name, table[k][2])
                  /\ \A j \in 1..(k - 1) : ~ IncludesSome(name, table[j][2])][1]
    ELSE "other"

categorizeIngredient(name) ==
    LET categories ==
            << << "vegetable", Words(<< "tomato", "onion", "garlic", "carrot", "potato",
                                        "lettuce", "cucumber" >>) >>,
               << "meat", Words(<< "chicken", "beef", "pork", "lamb", "turkey" >>) >>,
               << "seafood", Words(<< "fish", "salmon", "tuna", "shrimp", "crab",
                                      "lobster" >>) >>,
               << "dairy", Words(<< "milk", "cheese", "butter", "yogurt", "cream" >>) >>,
               << "grain", Words(<< "rice", "pasta", "bread", "wheat", "oat" >>) >>,
               << "fruit", Words(<< "apple", "banana", "orange", "lemon",
                                    "strawberry" >>) >>,
               << "spice", Words(<< "salt", "pepper", "paprika", "cumin",
                                    "oregano" >>) >> >>
    IN  FirstCategory(categories, name)

categorizeTool(name) ==
    LET types ==
            << << "cutting", Words(<< "knife", "peeler", "grater" >>) >>,
               << "cooking", Words(<< "pan", "pot", "oven", "stove" >>) >>,
               << "mixing", Words(<< "bowl", "whisk", "spoon", "spatula" >>) >>,
               << "measuring", Words(<< "cup", "spoon", "scale" >>) >>,
               << "serving", Words(<< "plate", "fork", "ladle" >>) >> >>
    IN  FirstCategory(types, name)

\* ingredients.slice(0, 3).map(i => i.name)
findRelatedIngredients(action, ingredients) ==
    LET top == Slice(ingredients, 0, 3)
    IN  [k \in 1..Len(top) |-> top[k].name]

findRelatedTools(action, tools) ==
    LET actionToolMap ==
            << << Chars("cut"), Words(<< "knife", "cutting board" >>) >>,
               << Chars("fry"), Words(<< "pan", "spatula" >>) >>,
               << Chars("boil"), Words(<< "pot", "ladle" >>) >>,
               << Chars("mix"), Words(<< "bowl", "whisk", "spoon" >>) >>,
               << Chars("bake"), Words(<< "oven", "baking sheet" >>) >> >>
        lower == ToLowerCase(action)
        hits == { k \in 1..Len(actionToolMap) : Includes(lower, actionToolMap[k][1]) }
    IN  IF hits = { } THEN << >>
        ELSE LET relatedTools ==
                     actionToolMap[CHOOSE k \in hits : \A j \in hits : k <= j][2]
                 kept == SelectSeq(tools,
                             LAMBDA t : IncludesSome(ToLowerCase(t.name), relatedTools))
             IN  [k \in 1..Len(kept) |-> kept[k].name]

\* list.sort((a, b) => b.confidence - a.confidence): stable, descending
RECURSIVE InsertByConfidence(_, _)
InsertByConfidence(sorted, item) ==
    IF sorted = << >> THEN << item >>
    ELSE IF Head(sorted).confidence >= item.confidence
         THEN << Head(sorted) >> \o InsertByConfidence(Tail(sorted), item)
         ELSE << item >> \o sorted

RECURSIVE SortByConfidence(_)
SortByConfidence(list) ==
    IF list = << >> THEN << >>
    ELSE InsertByConfidence(SortByConfidence(SubSeq(list, 1, Len(list) - 1)),
                            list[Len(list)])

\* extractIngredients, lines 284-301: the loop over the general labels;
\* st holds the locals ingredients and seen
RECURSIVE IngredientsFromLabels(_, _, _)
IngredientsFromLabels(labels, threshold, st) ==
    IF labels = << >> THEN st
    ELSE LET label == Head(labels)
             name == LabelName(label)
             confidence == label.Confidence
         IN  IngredientsFromLabels(Tail(labels), threshold,
                 IF /\ confidence >= threshold
                    /\ (IncludesSome(name, INGREDIENT_KEYWORDS) \/ isLikelyFoodItem(name))
                    /\ name \notin st.seen
                 THEN [ items |-> Append(st.items,
                                      [ name |-> label.Name,
                                        confidence |-> confidence,
                                        category |-> categorizeIngredient(name) ]),
                        seen |-> st.seen \cup { name } ]
                 ELSE st)

\* extractIngredients, lines 304-317: the loop over the custom labels
RECURSIVE IngredientsFromCustomLabels(_, _, _)
IngredientsFromCustomLabels(customLabels, threshold, st) ==
    IF customLabels = << >> THEN st
    ELSE LET customLabel == Head(customLabels)
             name == LabelName(customLabel)
             confidence == customLabel.Confidence
         IN  IngredientsFromCustomLabels(Tail(customLabels), threshold,
                 IF confidence >= threshold /\ name \notin st.seen
                 THEN [ items |-> Append(st.items,
                                      [ name |-> customLabel.Name,
                                        confidence |-> confidence,
                                        category |-> categorizeIngredient(name) ]),
                        seen |-> st.seen \cup { name } ]
                 ELSE st)

\* confidence >= 50, not seen, a related term in the name (lines 343-344 and
\* 434-435); seen is not extended by the additional items
IsAdditional(label, seen, terms) ==
    /\ label.Confidence >= 50
    /\ LabelName(label) \notin seen
    /\ IncludesSome(LabelName(label), terms)

detectAdditionalFoodItems(labels, seen) ==
    LET foodRelatedTerms ==
            Words(<< "dish", "meal", "cuisine", "plate", "bowl", "cooking", "food", "snack",
                     "breakfast", "lunch", "dinner", "recipe", "ingredient", "sauce", "soup",
                     "salad", "sandwich", "pasta", "pizza", "bread", "cake", "dessert" >>)
        kept == SelectSeq(labels, LAMBDA label : IsAdditional(label, seen, foodRelatedTerms))
    IN  [k \in 1..Len(kept) |->
            [ name |-> kept[k].Name, confidence |-> kept[k].Confidence,
              category |-> "general" ]]

\* a mutant of confidenceThreshold: high-density mode raises the threshold
confidenceThresholdRaised(isShortVideo) == IF isShortVideo THEN 85 ELSE 70

\* const confidenceThreshold = isShortVideo ? 55 : 70 (lines 281 and 378)
confidenceThreshold(isShortVideo) == IF isShortVideo THEN 55 ELSE 70

extractIngredients(labels, customLabels, isShortVideo) ==
    LET threshold == confidenceThreshold(isShortVideo)
        general == IngredientsFromLabels(labels, threshold,
                                         [ items |-> << >>, seen |-> { } ])
        custom == IngredientsFromCustomLabels(customLabels, threshold, general)
    IN  SortByConfidence(
            IF isShortVideo
            THEN custom.items \o detectAdditionalFoodItems(labels, custom.seen)
            ELSE custom.items)

\* extractTools, lines 380-397: the loop over the general labels
RECURSIVE ToolsFromLabels(_, _, _)
ToolsFromLabels(labels, threshold, st) ==
    IF labels = << >> THEN st
    ELSE LET label == Head(labels)
             name == LabelName(label)
             confidence == label.Confidence
         IN  ToolsFromLabels(Tail(labels), threshold,
                 IF /\ confidence >= threshold
                    /\ (IncludesSome(name, TOOL_KEYWORDS) \/ isLikelyCookingTool(name))
                    /\ name \notin st.seen
                 THEN [ items |-> Append(st.items,
                                      [ name |-> label.Name,
                                        confidence |-> confidence,
                                        type |-> categorizeTool(name) ]),
                        seen |-> st.seen \cup { name } ]
                 ELSE st)

detectAdditionalCookingTools(labels, seen) ==
    LET toolRelatedTerms ==
            Words(<< "container", "vessel", "holder", "rack", "stand", "board",
                     "mat", "towel", "glove", "mitt", "apron", "timer" >>)
        kept == SelectSeq(labels, LAMBDA label : IsAdditional(label, seen, toolRelatedTerms))
    IN  [k \in 1..Len(kept) |->
            [ name |-> kept[k].Name, confidence |-> kept[k].Confidence,
              type |-> "accessory" ]]

extractTools(labels, customLabels, isShortVideo) ==
    LET threshold == confidenceThreshold(isShortVideo)
        general == ToolsFromLabels(labels, threshold,
                                   [ items |-> << >>, seen |-> { } ])
    IN  SortByConfidence(
            IF isShortVideo
            THEN general.items \o detectAdditionalCookingTools(labels, general.seen)
            ELSE general.items)

interpretActionFromLabel(labelName) ==
    IF Includes(labelName, Chars("hand")) \/ Includes(labelName, Chars("finger"))
    THEN Chars("mixing")
    ELSE IF Includes(labelName, Chars("motion")) \/ Includes(labelName, Chars("movement"))
    THEN Chars("stirring")
    ELSE IF Includes(labelName, Chars("gesture")) THEN Chars("seasoning")
    ELSE IF Includes(labelName, Chars("pouring")) THEN Chars("pouring")
    ELSE IF Includes(labelName, Chars("heating")) THEN Chars("cooking")
    ELSE Chars("preparing")

detectAdditionalActions(labels, ingredients, tools) ==
    LET actionRelatedTerms ==
            Words(<< "hand", "finger", "motion", "movement", "gesture", "stirring", "mixing",
                     "pouring", "adding", "combining", "heating", "cooking", "preparing" >>)
        kept == SelectSeq(labels,
                    LAMBDA label : /\ label.Confidence >= 45
                                   /\ IncludesSome(LabelName(label), actionRelatedTerms))
    IN  [k \in 1..Len(kept) |->
            [ action |-> interpretActionFromLabel(LabelName(kept[k])),
              \* confidence * 0.8, exact for multiples of 5
              confidence |-> (kept[k].Confidence * 8) \div 10,
              relatedIngredients |-> Slice(ingredients, 0, 2),
              relatedTools |-> Slice(tools, 0, 1) ]]

inferActionsFromContext(ingredients, tools, isShortVideo) ==
    LET baseConfidence == IF isShortVideo THEN 70 ELSE 85
        ToolsNamed(word) ==
            SelectSeq(tools, LAMBDA t : Includes(ToLowerCase(t.name), Chars(word)))
        HasTool(word) == Len(ToolsNamed(word)) > 0
        OfCategory(cats) == SelectSeq(ingredients, LAMBDA ing : ing.category \in cats)
        vegetables == OfCategory({ "vegetable" })
        eggs == SelectSeq(ingredients,
                          LAMBDA ing : Includes(ToLowerCase(ing.name), Chars("egg")))
        cutting ==
            IF HasTool("knife") /\ Len(vegetables) > 0
            THEN << [ action |-> Chars("Cutting vegetables"),
                      confidence |-> baseConfidence,
                      relatedIngredients |-> vegetables,
                      relatedTools |-> ToolsNamed("knife") ] >>
            ELSE << >>
        frying ==
            IF HasTool("pan")
               /\ Len(OfCategory({ "meat", "vegetable" })) > 0
            THEN << [ action |-> Chars("Frying"),
                      confidence |-> baseConfidence - 5,
                      relatedIngredients |->
                          OfCategory({ "meat", "vegetable" }),
                      relatedTools |-> ToolsNamed("pan") ] >>
            ELSE << >>
        mixing ==
            IF HasTool("bowl") /\ Len(ingredients) >= 2
            THEN << [ action |-> Chars("Mixing ingredients"),
                      confidence |-> baseConfidence - 10,
                      relatedIngredients |-> Slice(ingredients, 0, 3),
                      relatedTools |-> ToolsNamed("bowl") ] >>
            ELSE << >>
        scrambled ==
            IF isShortVideo /\ Len(eggs) > 0 /\ HasTool("pan")
            THEN << [ action |-> Chars("Making scrambled eggs"),
                      confidence |-> 75,
                      relatedIngredients |-> eggs,
                      relatedTools |-> ToolsNamed("pan") ] >>
            ELSE << >>
        salad ==
            IF isShortVideo /\ Len(vegetables) >= 2
            THEN << [ action |-> Chars("Making salad"),
                      confidence |-> 65,
                      relatedIngredients |-> vegetables,
                      relatedTools |-> << >> ] >>
            ELSE << >>
        heat ==
            IF isShortVideo /\ Len(ingredients) > 0 /\ Len(tools) > 0
            THEN << [ action |-> Chars("Cooking with heat"),
                      confidence |-> 60,
                      relatedIngredients |-> Slice(ingredients, 0, 2),
                      relatedTools |-> Slice(tools, 0, 1) ] >>
            ELSE << >>
    IN  cutting \o frying \o mixing \o scrambled \o salad \o heat

\* const confidenceThreshold = isShortVideo ? 50 : 70 (line 460)
actionConfidenceThreshold(isShortVideo) == IF isShortVideo THEN 50 ELSE 70

\* inferCookingActions, lines 463-476: the actions named by a label
DirectActions(labels, ingredients, tools, isShortVideo) ==
    LET kept == SelectSeq(labels,
                    LAMBDA label :
                        /\ label.Confidence >= actionConfidenceThreshold(isShortVideo)
                        /\ IncludesSome(LabelName(label), ACTION_KEYWORDS))
    IN  [k \in 1..Len(kept) |->
            [ action |-> kept[k].Name,
              confidence |-> kept[k].Confidence,
              relatedIngredients |->
                  findRelatedIngredients(LabelName(kept[k]), ingredients),
              relatedTools |-> findRelatedTools(LabelName(kept[k]), tools) ]]

inferCookingActions(labels, ingredients, tools, isShortVideo) ==
    SortByConfidence(
        DirectActions(labels, ingredients, tools, isShortVideo)
        \o (IF isShortVideo THEN detectAdditionalActions(labels, ingredients, tools)
            ELSE << >>)
        \o (IF Len(ingredients) > 0 /\ Len(tools) > 0
            THEN inferActionsFromContext(ingredients, tools, isShortVideo)
            ELSE << >>))

-----------------------------------------------------------------------------
(* Inputs: the labels Rekognition can return for one frame *)

Label(n, c) == [Name |-> Chars(n), Confidence |-> c]

\* confidences at and around the thresholds 45, 50, 55 and 70
LabelPool ==
    { Label("Tomato", 70), Label("Tomato", 55), Label("Knife", 70),
      Label("Frying Pan", 55), Label("Hand", 45), Label("Food", 50),
      Label("Chopping", 70), Label("Frying", 70) }

CustomLabelLists == { << >>, << Label("Basil", 60) >> }

LabelLists == UNION { [1..n -> LabelPool] : n \in 0..MaxLabels }

-----------------------------------------------------------------------------
(* The state machine of analyzeFrame: a caller analyses the labels of one  *)
(* frame in normal mode and in high-density mode (isShortVideo)            *)

\* analyzeFrame, lines 156-170: the call, with the labels already detected
AnalyzeFrame ==
    /\ analyzerPc = "idle"
    /\ \E isShortVideo \in BOOLEAN : shortMode' = isShortVideo
    /\ frameIngredients' = << >>
    /\ frameTools' = << >>
    /\ analyzerPc' = "ingredients"
    /\ UNCHANGED << frameLabels, frameCustomLabels, analyses >>
    /\ UNCHANGED outsideAnalyzer

\* line 173
ExtractIngredients ==
    /\ analyzerPc = "ingredients"
    /\ frameIngredients' = extractIngredients(frameLabels, frameCustomLabels, shortMode)
    /\ analyzerPc' = "tools"
    /\ UNCHANGED << frameLabels, frameCustomLabels, shortMode, frameTools, analyses >>
    /\ UNCHANGED outsideAnalyzer

\* line 174
ExtractTools ==
    /\ analyzerPc = "tools"
    /\ frameTools' = extractTools(frameLabels, frameCustomLabels, shortMode)
    /\ analyzerPc' = "actions"
    /\ UNCHANGED << frameLabels, frameCustomLabels, shortMode, frameIngredients, analyses >>
    /\ UNCHANGED outsideAnalyzer

\* lines 175-188: infer the actions and return the frame's result
InferCookingActions ==
    /\ analyzerPc = "actions"
    /\ analyses' =
          [analyses EXCEPT ![shortMode] =
              << [ detectedIngredients |-> frameIngredients,
                   detectedTools |-> frameTools,
                   detectedActions |->
                       inferCookingActions(frameLabels, frameIngredients,
                                           frameTools, shortMode) ] >>]
    /\ analyzerPc' = "idle"
    /\ UNCHANGED << frameLabels, frameCustomLabels, shortMode, frameIngredients,
                    frameTools >>
    /\ UNCHANGED outsideAnalyzer

NextAnalyzer == AnalyzeFrame \/ ExtractIngredients \/ ExtractTools \/ InferCookingActions

InitAnalyzer ==
    /\ frameLabels \in LabelLists
    /\ frameCustomLabels \in CustomLabelLists
    /\ AnalyzerIdle
    /\ frameResults = << >>
    /\ IntegratorIdle
    /\ transcriptionText = << >>
    /\ frameAnalysisResult = << >>
    /\ ProcessorIdle
    /\ JobIdle
    /\ GuardIdle

SpecAnalyzer == InitAnalyzer /\ [][NextAnalyzer]_vars

\* analyzeFrame on labels as the detection may hand them over malformed: a
\* missing Name reads as '' (label.Name?.toLowerCase() || ''), a missing
\* Confidence as 0 (label.Confidence || 0), a Confidence outside 0..100 is
\* taken as it is
InitMalformed ==
    LET pool == { Label("", 90), Label("Tomato", 150), Label("Knife", 0 - 5),
                  Label("Knife", 0), Label("Tomato", 70) }
    IN  /\ frameLabels \in UNION { [1..n -> pool] : n \in 0..MaxLabels }
        /\ frameCustomLabels \in { << >>, << Label("", 90) >>, << Label("Basil", 150) >> }
        /\ AnalyzerIdle
        /\ frameResults = << >>
        /\ IntegratorIdle
        /\ transcriptionText = << >>
        /\ frameAnalysisResult = << >>
        /\ ProcessorIdle
        /\ JobIdle
        /\ GuardIdle

SpecMalformed == InitMalformed /\ [][NextAnalyzer]_vars

-----------------------------------------------------------------------------
(* RecipeProcessorService (recipe-processor.ts): the fusion of the         *)
(* transcript with the analysed frames.  A character outside ASCII is the  *)
(* one-character string named by its code point ("U+5207")                 *)

extractAudioKeywords(transcription) ==
    LET \* text.match(/(?:a|b|c)/g): the matches from left to right, at each place
        \* the first alternative that fits, none overlapping
        RECURSIVE MatchAll(_, _)
        MatchAll(text, alternatives) ==
            IF text = << >> THEN << >>
            ELSE LET fits == { k \in 1..Len(alternatives) :
                                 /\ Len(alternatives[k]) <= Len(text)
                                 /\ SubSeq(text, 1, Len(alternatives[k])) = alternatives[k] }
                 IN  IF fits = { } THEN MatchAll(Tail(text), alternatives)
                     ELSE LET found == alternatives[CHOOSE k \in fits : \A j \in fits : k <= j]
                          IN  << found >>
                              \o MatchAll(SubSeq(text, Len(found) + 1, Len(text)), alternatives)
        \* patterns.forEach(pattern => list.push(...(text.match(pattern) || [])))
        RECURSIVE MatchPatterns(_, _)
        MatchPatterns(text, patternList) ==
            IF patternList = << >> THEN << >>
            ELSE MatchAll(text, Head(patternList)) \o MatchPatterns(text, Tail(patternList))
        \* [...new Set(list)]
        RECURSIVE Distinct(_)
        Distinct(list) ==
            IF list = << >> THEN << >>
            ELSE SetAdd(Distinct(SubSeq(list, 1, Len(list) - 1)), list[Len(list)])
        text == ToLowerCase(transcription)
        ingredientPatterns ==
            << << << "U+7389", "U+306D", "U+304E" >>,
                  << "U+305F", "U+307E", "U+306D", "U+304E" >>, Chars("onion") >>,
               << << "U+30C8", "U+30DE", "U+30C8" >>, Chars("tomato") >>,
               << << "U+3058", "U+3083", "U+304C", "U+3044", "U+3082" >>,
                  << "U+30B8", "U+30E3", "U+30AC", "U+30A4", "U+30E2" >>, Chars("potato") >>,
               << << "U+4EBA", "U+53C2" >>, << "U+306B", "U+3093", "U+3058", "U+3093" >>,
                  << "U+30CB", "U+30F3", "U+30B8", "U+30F3" >>, Chars("carrot") >>,
               << << "U+5375" >>, << "U+305F", "U+307E", "U+3054" >>, Chars("egg") >>,
               << << "U+9D8F", "U+8089" >>, << "U+3068", "U+308A", "U+306B", "U+304F" >>,
                  Chars("chicken") >>,
               << << "U+725B", "U+8089" >>, Chars("beef") >>,
               << << "U+8C5A", "U+8089" >>, Chars("pork") >>,
               << << "U+7C73" >>, << "U+3053", "U+3081" >>, Chars("rice") >>,
               << << "U+30D1", "U+30F3" >>, Chars("bread") >>,
               << << "U+30C1", "U+30FC", "U+30BA" >>, Chars("cheese") >>,
               << << "U+30D0", "U+30BF", "U+30FC" >>, Chars("butter") >>,
               << << "U+6CB9" >>, << "U+3042", "U+3076", "U+3089" >>, Chars("oil") >>,
               << << "U+5869" >>, << "U+3057", "U+304A" >>, Chars("salt") >>,
               << << "U+80E1", "U+6912" >>, << "U+3053", "U+3057", "U+3087", "U+3046" >>,
                  Chars("pepper") >>,
               << << "U+91A4", "U+6CB9" >>, << "U+3057", "U+3087", "U+3046", "U+3086" >> >>,
               << << "U+5473", "U+564C" >>, << "U+307F", "U+305D" >> >>,
               << << "U+7802", "U+7CD6" >>, << "U+3055", "U+3068", "U+3046" >>,
                  Chars("sugar") >> >>
        actionPatterns ==
            << << << "U+5207", "U+308B" >>, << "U+304D", "U+308B" >>,
                  << "U+523B", "U+3080" >>, << "U+304D", "U+3056", "U+3080" >>,
                  << "U+30AB", "U+30C3", "U+30C8" >> >>,
               << << "U+7092", "U+3081", "U+308B" >>,
                  << "U+3044", "U+305F", "U+3081", "U+308B" >>,
                  << "U+30D5", "U+30E9", "U+30A4" >> >>,
               << << "U+716E", "U+308B" >>, << "U+306B", "U+308B" >>,
                  << "U+8339", "U+3067", "U+308B" >>, << "U+3086", "U+3067", "U+308B" >>,
                  << "U+30DC", "U+30A4", "U+30EB" >> >>,
               << << "U+713C", "U+304F" >>, << "U+3084", "U+304F" >>,
                  << "U+30B0", "U+30EA", "U+30EB" >>, << "U+30D9", "U+30A4", "U+30AF" >> >>,
               << << "U+6DF7", "U+305C", "U+308B" >>, << "U+307E", "U+305C", "U+308B" >>,
                  << "U+30DF", "U+30C3", "U+30AF", "U+30B9" >> >>,
               << << "U+84B8", "U+3059" >>, << "U+3080", "U+3059" >>,
                  << "U+30B9", "U+30C1", "U+30FC", "U+30E0" >> >>,
               << << "U+63DA", "U+3052", "U+308B" >>, << "U+3042", "U+3052", "U+308B" >> >>,
               << << "U+76DB", "U+308A", "U+4ED8", "U+3051" >>,
                  << "U+3082", "U+308A", "U+3064", "U+3051" >>,
                  << "U+30D7", "U+30EC", "U+30FC", "U+30C8" >> >> >>
    IN  [ ingredients |-> Distinct(MatchPatterns(text, ingredientPatterns)),
          actions |-> Distinct(MatchPatterns(text, actionPatterns)),
          times |-> << >>,
          temperatures |-> << >> ]

\* RecipeProcessorService declares no method categorizeIngredient (it is a
\* private method of FrameAnalyzer): evaluating this.categorizeIngredient(...)
\* at line 1114 raises a TypeError
ProcessorCategorizes == FALSE

\* mergeAudioVisualIngredients, lines 1108-1117: the forEach over the audio
\* ingredients; threw is set by the TypeError of line 1114
mergeAudioVisualIngredients(audioIngredients, visualIngredients) ==
    LET visualNames ==
            { ToLowerCase(visualIngredients[k].name) : k \in 1..Len(visualIngredients) }
        RECURSIVE MergeAudioIngredients(_, _)
        MergeAudioIngredients(remaining, merged) ==
            IF remaining = << >> THEN [ threw |-> FALSE, merged |-> merged ]
            ELSE LET audioIngredient == Head(remaining)
                 IN  IF ToLowerCase(audioIngredient) \in visualNames
                     THEN MergeAudioIngredients(Tail(remaining), merged)
                     ELSE IF ~ ProcessorCategorizes
                     THEN [ threw |-> TRUE, merged |-> merged ]
                     ELSE MergeAudioIngredients(Tail(remaining),
                              Append(merged,
                                     [ name |-> audioIngredient,
                                       confidence |-> 80,
                                       source |-> "audio",
                                       category |->
                                           categorizeIngredient(ToLowerCase(audioIngredient)) ]))
    IN  MergeAudioIngredients(audioIngredients, visualIngredients)

\* text.split(/[<U+3002><U+FF01><U+FF1F>\n]/)
RECURSIVE Split(_, _, _)
Split(text, delimiters, current) ==
    IF text = << >> THEN << current >>
    ELSE IF Head(text) \in delimiters
         THEN << current >> \o Split(Tail(text), delimiters, << >>)
         ELSE Split(Tail(text), delimiters, Append(current, Head(text)))

\* line 1142: stepIndicators.some(indicator => trimmed.includes(indicator))
hasStepIndicator(trimmed) ==
    \E indicator \in
        { << "U+307E", "U+305A" >>, << "U+306F", "U+3058", "U+3081", "U+306B" >>,
        Chars("first"), << "U+6700", "U+521D", "U+306B" >>, << "U+6B21", "U+306B" >>,
        << "U+3064", "U+304E", "U+306B" >>, Chars("next"), Chars("then"),
        << "U+6700", "U+5F8C", "U+306B" >>,
        << "U+3055", "U+3044", "U+3054", "U+306B" >>, Chars("finally"),
        Chars("last"), << "U+305D", "U+306E", "U+5F8C" >>,
        << "U+3042", "U+3068", "U+3067" >>, Chars("after") } :
        Includes(trimmed, indicator)

\* line 1143: the regular expression of cooking verbs tested on trimmed
hasAction(trimmed) ==
    \E word \in
        { << "U+5207", "U+308B" >>, << "U+7092", "U+3081", "U+308B" >>,
        << "U+716E", "U+308B" >>, << "U+713C", "U+304F" >>,
        << "U+6DF7", "U+305C", "U+308B" >>, << "U+52A0", "U+3048", "U+308B" >>,
        << "U+8ABF", "U+7406" >>, << "U+6599", "U+7406" >> } :
        Includes(trimmed, word)

\* a mutant of AudioStepsFrom: a sentence of any length becomes a step
RECURSIVE AudioStepsOfAnyLength(_, _)
AudioStepsOfAnyLength(sentences, stepNumber) ==
    IF sentences = << >> THEN << >>
    ELSE LET trimmed == Trim(Head(sentences))
         IN  IF hasStepIndicator(trimmed) \/ hasAction(trimmed)
             THEN << [ stepNumber |-> stepNumber,
                       description |-> trimmed,
                       timestamp |-> 0,
                       confidence |-> IF hasStepIndicator(trimmed) THEN 85 ELSE 70,
                       source |-> "audio" ] >>
                  \o AudioStepsOfAnyLength(Tail(sentences), stepNumber + 1)
             ELSE AudioStepsOfAnyLength(Tail(sentences), stepNumber)

\* extractStepsFromAudio, lines 1140-1156: the forEach over the sentences
RECURSIVE AudioStepsFrom(_, _)
AudioStepsFrom(sentences, stepNumber) ==
    IF sentences = << >> THEN << >>
    ELSE LET trimmed == Trim(Head(sentences))
         IN  IF (hasStepIndicator(trimmed) \/ hasAction(trimmed)) /\ Len(trimmed) > 5
             THEN << [ stepNumber |-> stepNumber,
                       description |-> trimmed,
                       timestamp |-> 0,
                       confidence |-> IF hasStepIndicator(trimmed) THEN 85 ELSE 70,
                       source |-> "audio" ] >>
                  \o AudioStepsFrom(Tail(sentences), stepNumber + 1)
             ELSE AudioStepsFrom(Tail(sentences), stepNumber)

extractStepsFromAudio(transcription) ==
    LET text == ToLowerCase(transcription)
        sentences == SelectSeq(Split(text, { "U+3002", "U+FF01", "U+FF1F", "\n" }, << >>),
                               LAMBDA s : Len(Trim(s)) > 0)
    IN  AudioStepsFrom(sentences, 1)

isRelatedAction(audioDescription, visualAction) ==
    LET actionMap ==
            << << Chars("cutting"),
                  { << "U+5207", "U+308B" >>, << "U+30AB", "U+30C3", "U+30C8" >>,
                    << "U+523B", "U+3080" >> } >>,
               << Chars("frying"),
                  { << "U+7092", "U+3081", "U+308B" >>, << "U+713C", "U+304F" >>,
                    << "U+30D5", "U+30E9", "U+30A4" >> } >>,
               << Chars("mixing"),
                  { << "U+6DF7", "U+305C", "U+308B" >>,
                    << "U+30DF", "U+30C3", "U+30AF", "U+30B9" >>,
                    << "U+304B", "U+304D", "U+6DF7", "U+305C" >> } >>,
               << Chars("cooking"),
                  { << "U+8ABF", "U+7406" >>, << "U+6599", "U+7406" >>,
                    << "U+4F5C", "U+308B" >> } >>,
               << Chars("boiling"),
                  { << "U+8339", "U+3067", "U+308B" >>, << "U+716E", "U+308B" >> } >>,
               << Chars("steaming"),
                  { << "U+84B8", "U+3059" >>, << "U+30B9", "U+30C1", "U+30FC", "U+30E0" >> } >> >>
        keys == { k \in 1..Len(actionMap) : actionMap[k][1] = ToLowerCase(visualAction) }
        relatedTerms == IF keys = { } THEN { } ELSE actionMap[CHOOSE k \in keys : TRUE][2]
    IN  \E term \in relatedTerms : Includes(audioDescription, term)

\* audioSteps.find(step => ...) is not undefined (lines 1167-1170)
HasRelatedAudioStep(stepsOfAudio, action) ==
    \E k \in 1..Len(stepsOfAudio) :
        \/ Includes(stepsOfAudio[k].description, ToLowerCase(action.action))
        \/ isRelatedAction(stepsOfAudio[k].description, action.action)

\* a mutant of VisualSteps: every visual action is pushed as a step of its own
VisualStepsUnfiltered(stepsOfAudio, visualActions, index) ==
    [ k \in 1..(Len(visualActions) - index) |->
        [ stepNumber |-> Len(stepsOfAudio) + index + k,
          description |-> visualActions[index + k].action \o << "U+FF08", "U+6620", "U+50CF", "U+5206", "U+6790", "U+FF09" >>,
          timestamp |-> 0,
          confidence |-> visualActions[index + k].confidence,
          source |-> "visual",
          visualData |-> [ ingredients |-> << >>, tools |-> << >> ] ] ]

\* integrateCookingSteps, lines 1166-1185: the forEach over the visual actions
RECURSIVE VisualSteps(_, _, _)
VisualSteps(stepsOfAudio, visualActions, index) ==
    IF index >= Len(visualActions) THEN << >>
    ELSE LET action == visualActions[index + 1]
         IN  (IF ~ HasRelatedAudioStep(stepsOfAudio, action)
              THEN << [ stepNumber |-> Len(stepsOfAudio) + index + 1,
                        description |-> action.action \o << "U+FF08", "U+6620", "U+50CF", "U+5206", "U+6790", "U+FF09" >>,
                        timestamp |-> 0,
                        confidence |-> action.confidence,
                        source |-> "visual",
                        visualData |->
                            [ ingredients |->
                                  [k \in 1..Len(action.relatedIngredients) |->
                                      action.relatedIngredients[k].name],
                              tools |->
                                  [k \in 1..Len(action.relatedTools) |->
                                      action.relatedTools[k].name] ] ] >>
              ELSE << >>)
             \o VisualSteps(stepsOfAudio, visualActions, index + 1)

\* a mutant of integrateCookingSteps: the steps are returned unsorted
integrateCookingStepsUnsorted(stepsOfAudio, visualActions) ==
    stepsOfAudio \o VisualSteps(stepsOfAudio, visualActions, 0)

integrateCookingSteps(stepsOfAudio, visualActions) ==
    SortByConfidence(stepsOfAudio \o VisualSteps(stepsOfAudio, visualActions, 0))

\* deduplicateByName, lines 1002-1012
deduplicateByName(items, nameField) ==
    LET RECURSIVE DeduplicateFrom(_, _)
        DeduplicateFrom(rest, seen) ==
            IF rest = << >> THEN << >>
            ELSE LET name == ToLowerCase(Head(rest)[nameField])
                 IN  IF name # << >> /\ name \notin seen
                     THEN << Head(rest) >> \o DeduplicateFrom(Tail(rest), seen \cup { name })
                     ELSE DeduplicateFrom(Tail(rest), seen)
    IN  DeduplicateFrom(items, { })

-----------------------------------------------------------------------------
(* Inputs of integrateAudioVisualAnalysis: a transcript and the analysed   *)
(* frames                                                                  *)

\* sentences of a transcript: with a discourse marker, with a cooking verb
\* ("tomato wo itameru"), with an ingredient no frame shows, a short one and
\* one of white space only
Sentences ==
    { Chars("First cutting Onion"),
      << "t", "o", "m", "a", "t", "o", "U+3092", "U+7092", "U+3081", "U+308B" >>,
      Chars("next add salt"),
      Chars("then"),
      Chars("  ") }

\* transcripts of up to MaxSentences sentences, each ended by the full stop
\* U+3002
Transcripts ==
    UNION { { Join([k \in 1..n |-> f[k] \o << "U+3002" >>], << >>) :
                f \in [1..n -> Sentences] } : n \in 0..MaxSentences }

\* the ingredients and actions analyzeFrame reports for the frames
VisualIngredientPool ==
    { [ name |-> Chars("Onion"), confidence |-> 92, category |-> "vegetable" ],
      [ name |-> Chars("tomato"), confidence |-> 75, category |-> "vegetable" ] }

VisualActionPool ==
    { [ action |-> Chars("Cutting"), confidence |-> 95,
        relatedIngredients |-> << >>, relatedTools |-> << >> ],
      [ action |-> Chars("Frying"), confidence |-> 80,
        relatedIngredients |->
            << [ name |-> Chars("tomato"), confidence |-> 75, category |-> "vegetable" ] >>,
        relatedTools |-> << [ name |-> Chars("Pan"), confidence |-> 75, type |-> "cooking" ] >> ],
      [ action |-> Chars("stirring"), confidence |-> 60,
        relatedIngredients |-> << >>, relatedTools |-> << >> ] }

\* lines 662-665: the collected items, deduplicated by name and sorted
FrameAnalysisResults ==
    { [ ingredients |-> SortByConfidence(deduplicateByName(ings, "name")),
        actions |-> SortByConfidence(deduplicateByName(acts, "action")) ] :
        ings \in UNION { [1..n -> VisualIngredientPool] : n \in 0..2 },
        acts \in UNION { [1..n -> VisualActionPool] : n \in 0..2 } }

-----------------------------------------------------------------------------
(* The state machine of integrateAudioVisualAnalysis as processVideo calls *)
(* it (lines 680-692)                                                      *)

\* line 681: if (transcriptionText && frameAnalysisResult); the result stays
\* null
SkipIntegration ==
    /\ processorPc = "idle"
    /\ (transcriptionText = << >> \/ frameAnalysisResult = << >>)
    /\ processorPc' = "done"
    /\ UNCHANGED << transcriptionText, frameAnalysisResult, audioKeywords,
                    integratedIngredients, audioSteps, integratedAnalysis >>
    /\ UNCHANGED outsideProcessor

\* lines 1022-1024
ExtractAudioKeywords ==
    /\ processorPc = "idle"
    /\ transcriptionText # << >>
    /\ frameAnalysisResult # << >>
    /\ audioKeywords' = extractAudioKeywords(transcriptionText)
    /\ processorPc' = "merge"
    /\ UNCHANGED << transcriptionText, frameAnalysisResult, integratedIngredients,
                    audioSteps, integratedAnalysis >>
    /\ UNCHANGED outsideProcessor

\* line 1026; a TypeError leaves integrateAudioVisualAnalysis and is caught
\* at line 690, the result stays null
MergeIngredients ==
    /\ processorPc = "merge"
    /\ LET merge == mergeAudioVisualIngredients(audioKeywords.ingredients,
                                                frameAnalysisResult[1].ingredients)
       IN  IF merge.threw
           THEN /\ processorPc' = "caught"
                /\ UNCHANGED integratedIngredients
           ELSE /\ processorPc' = "steps"
                /\ integratedIngredients' = merge.merged
    /\ UNCHANGED << transcriptionText, frameAnalysisResult, audioKeywords, audioSteps,
                    integratedAnalysis >>
    /\ UNCHANGED outsideProcessor

\* line 1027
ExtractStepsFromAudio ==
    /\ processorPc = "steps"
    /\ audioSteps' = extractStepsFromAudio(transcriptionText)
    /\ processorPc' = "integrate"
    /\ UNCHANGED << transcriptionText, frameAnalysisResult, audioKeywords,
                    integratedIngredients, integratedAnalysis >>
    /\ UNCHANGED outsideProcessor

\* lines 1028-1036
IntegrateCookingSteps ==
    /\ processorPc = "integrate"
    /\ integratedAnalysis' =
          << [ ingredients |-> integratedIngredients,
               actions |-> frameAnalysisResult[1].actions,
               steps |-> integrateCookingSteps(audioSteps,
                                               frameAnalysisResult[1].actions),
               audioKeywords |-> audioKeywords ] >>
    /\ processorPc' = "done"
    /\ UNCHANGED << transcriptionText, frameAnalysisResult, audioKeywords,
                    integratedIngredients, audioSteps >>
    /\ UNCHANGED outsideProcessor

NextFusion ==
    \/ SkipIntegration \/ ExtractAudioKeywords \/ MergeIngredients
    \/ ExtractStepsFromAudio \/ IntegrateCookingSteps

InitFusion ==
    /\ transcriptionText \in Transcripts
    /\ frameAnalysisResult \in { << >> } \cup { << r >> : r \in FrameAnalysisResults }
    /\ ProcessorIdle
    /\ JobIdle
    /\ GuardIdle
    /\ frameResults = << >>
    /\ IntegratorIdle
    /\ frameLabels = << >>
    /\ frameCustomLabels = << >>
    /\ AnalyzerIdle

SpecFusion == InitFusion /\ [][NextFusion]_vars

-----------------------------------------------------------------------------
(* RecipeProcessorService (recipe-processor.ts): the processing job of     *)
(* startProcessing, the background processVideo that advances it, and      *)
(* cancelJob.  The file holds two versions of the class, one built on      *)
(* Gemini and one on the AWS services; pipeline says which one runs.  The  *)
(* updates of the job row are taken to succeed.                            *)

\* the awaited steps of processVideo in the order of the try block
Pipeline(version) ==
    LET Update(status, progress) ==
            [ op |-> "updateJobStatus", status |-> status, progress |-> progress ]
        Call(op, name) == [ op |-> op, name |-> name ]
    IN
    IF version = "gemini"
    THEN << Update("pending", 10),
            Call("getVideoInfo", "YouTubeService.getVideoInfo"),
            Update("transcribing", 20),
            Call("degradable", "youtubeProcessor.processVideo"),
            Update("analyzing_frames", 40),
            Call("degradable", "geminiService.analyzeImage"),
            Update("generating_recipe", 60),
            Call("generateRecipe", "geminiService.analyzeVideoFromUrl"),
            Update("saving_recipe", 90),
            Call("saveRecipe", "prisma.recipe.create"),
            Update("completed", 100) >>
    ELSE << Update("pending", 5),
            Call("getVideoInfo", "YouTubeService.getVideoInfo"),
            Update("pending", 10),
            Call("degradable", "youtubeProcessor.processVideo"),
            Update("transcribing", 25),
            Call("degradable", "transcribeService.transcribeAudio"),
            Update("recognizing", 50),
            Call("degradable", "rekognitionService.detectLabels"),
            Call("degradable", "rekognitionVideoService"),
            Call("degradable", "frameAnalyzer.analyzeFrame"),
            Update("generating", 75),
            Call("degradable", "integrateAudioVisualAnalysis"),
            Call("generateRecipe", "bedrockService.generateRecipe"),
            Update("generating", 95),
            Call("saveRecipe", "prisma.recipe.create"),
            Update("completed", 100) >>

\* startProcessing: the job row is created and processVideo starts in the
\* background
StartProcessing ==
    /\ jobStatus = "none"
    /\ jobStatus' = "pending"
    /\ jobProgress' = 0
    /\ jobPc' = [ at |-> "step", step |-> 1 ]
    /\ UNCHANGED << pipeline, jobError, caughtError, generatedRecipe, recipeSaved,
                    cancelPc, degraded, writes >>
    /\ UNCHANGED << integratorVars, analyzerVars, processorVars, guardVars >>

\* processVideo: await this.updateJobStatus(jobId, status, progress, undefined);
\* the undefined errorMessage leaves the column as it is
UpdateJobStatus ==
    /\ jobPc.at = "step"
    /\ Pipeline(pipeline)[jobPc.step].op = "updateJobStatus"
    /\ jobStatus' = Pipeline(pipeline)[jobPc.step].status
    /\ jobProgress' = Pipeline(pipeline)[jobPc.step].progress
    /\ writes' = Append(writes, [ status |-> Pipeline(pipeline)[jobPc.step].status,
                                   progress |-> Pipeline(pipeline)[jobPc.step].progress,
                                   errorMessage |-> "" ])
    /\ jobPc' = IF jobPc.step = Len(Pipeline(pipeline))
                THEN [ at |-> "resolved", step |-> 0 ]
                ELSE [ at |-> "step", step |-> jobPc.step + 1 ]
    /\ UNCHANGED << pipeline, jobError, caughtError, generatedRecipe, recipeSaved,
                    cancelPc, degraded >>
    /\ UNCHANGED << integratorVars, analyzerVars, processorVars, guardVars >>

\* videoInfo = await YouTubeService.getVideoInfo(youtubeUrl): outside any
\* inner try, an error reaches the catch block of processVideo
GetVideoInfo ==
    /\ jobPc.at = "step"
    /\ Pipeline(pipeline)[jobPc.step].op = "getVideoInfo"
    /\ \/ /\ jobPc' = [ at |-> "step", step |-> jobPc.step + 1 ]
          /\ UNCHANGED caughtError
       \/ /\ jobPc' = [ at |-> "catch", step |-> 0 ]
          /\ caughtError' = "Failed to get video info"
    /\ UNCHANGED << pipeline, jobStatus, jobProgress, jobError, generatedRecipe,
                    recipeSaved, cancelPc, degraded, writes >>
    /\ UNCHANGED << integratorVars, analyzerVars, processorVars, guardVars >>

\* DegradableStep without the inner try/catch: the error of the step reaches
\* the catch block of processVideo
DegradableStepUncaught ==
    /\ jobPc.at = "step"
    /\ Pipeline(pipeline)[jobPc.step].op = "degradable"
    /\ \/ /\ jobPc' = [ at |-> "step", step |-> jobPc.step + 1 ]
          /\ UNCHANGED << degraded, caughtError >>
       \/ /\ jobPc' = [ at |-> "catch", step |-> 0 ]
          /\ degraded' = degraded \cup { Pipeline(pipeline)[jobPc.step].name }
          /\ caughtError' = "Failed to process video"
    /\ UNCHANGED << pipeline, jobStatus, jobProgress, jobError, generatedRecipe,
                    recipeSaved, cancelPc, writes >>
    /\ UNCHANGED << integratorVars, analyzerVars, processorVars, guardVars >>

\* a step inside its own try/catch (video processing, transcription, label
\* and frame analysis, integration): it is skipped or succeeds, or it throws
\* and the catch only logs
DegradableStep ==
    /\ jobPc.at = "step"
    /\ Pipeline(pipeline)[jobPc.step].op = "degradable"
    /\ \/ UNCHANGED degraded
       \/ degraded' = degraded \cup { Pipeline(pipeline)[jobPc.step].name }
    /\ jobPc' = [ at |-> "step", step |-> jobPc.step + 1 ]
    /\ UNCHANGED << pipeline, jobStatus, jobProgress, jobError, caughtError,
                    generatedRecipe, recipeSaved, cancelPc, writes >>
    /\ UNCHANGED << integratorVars, analyzerVars, processorVars, guardVars >>

\* the recipe generation with its fallbacks: the AI service, in the Gemini
\* version generateRecipeFromAnalysis after it, and generateMockRecipe last
GenerateRecipe ==
    /\ jobPc.at = "step"
    /\ Pipeline(pipeline)[jobPc.step].op = "generateRecipe"
    /\ \/ /\ generatedRecipe' = "ai"
          /\ UNCHANGED degraded
       \/ /\ pipeline = "gemini"
          /\ generatedRecipe' = "analysis"
          /\ degraded' = degraded \cup { Pipeline(pipeline)[jobPc.step].name }
       \/ /\ generatedRecipe' = "mock"
          /\ degraded' =
                degraded \cup { Pipeline(pipeline)[jobPc.step].name }
                         \cup (IF pipeline = "gemini"
                               THEN { "geminiService.generateRecipeFromAnalysis" }
                               ELSE { })
    /\ jobPc' = [ at |-> "step", step |-> jobPc.step + 1 ]
    /\ UNCHANGED << pipeline, jobStatus, jobProgress, jobError, caughtError,
                    recipeSaved, cancelPc, writes >>
    /\ UNCHANGED << integratorVars, analyzerVars, processorVars, guardVars >>

\* await this.prisma.recipe.create(...): outside any inner try
SaveRecipe ==
    /\ jobPc.at = "step"
    /\ Pipeline(pipeline)[jobPc.step].op = "saveRecipe"
    /\ \/ /\ recipeSaved' = TRUE
          /\ jobPc' = [ at |-> "step", step |-> jobPc.step + 1 ]
          /\ UNCHANGED caughtError
       \/ /\ jobPc' = [ at |-> "catch", step |-> 0 ]
          /\ caughtError' = "Failed to create recipe"
          /\ UNCHANGED recipeSaved
    /\ UNCHANGED << pipeline, jobStatus, jobProgress, jobError, generatedRecipe,
                    cancelPc, degraded, writes >>
    /\ UNCHANGED << integratorVars, analyzerVars, processorVars, guardVars >>

\* CatchError writing only the status and the message, as cancelJob does
CatchErrorKeepingProgress ==
    /\ jobPc.at \in { "catch", "rejected" }
    /\ jobStatus' = "failed"
    /\ jobError' = caughtError
    /\ writes' = Append(writes, [ status |-> "failed", progress |-> jobProgress,
                                   errorMessage |-> caughtError ])
    /\ jobPc' = IF jobPc.at = "catch" THEN [ at |-> "rejected", step |-> 0 ]
                ELSE [ at |-> "settled", step |-> 0 ]
    /\ UNCHANGED << pipeline, jobProgress, caughtError, generatedRecipe, recipeSaved,
                    cancelPc, degraded >>
    /\ UNCHANGED << integratorVars, analyzerVars, processorVars, guardVars >>

\* the catch block of processVideo writes 'failed' and rethrows; the catch
\* handler startProcessing attached to the promise writes 'failed' again
CatchError ==
    /\ jobPc.at \in { "catch", "rejected" }
    /\ jobStatus' = "failed"
    /\ jobProgress' = 0
    /\ jobError' = caughtError
    /\ writes' = Append(writes, [ status |-> "failed", progress |-> 0,
                                   errorMessage |-> caughtError ])
    /\ jobPc' = IF jobPc.at = "catch" THEN [ at |-> "rejected", step |-> 0 ]
                ELSE [ at |-> "settled", step |-> 0 ]
    /\ UNCHANGED << pipeline, caughtError, generatedRecipe, recipeSaved, cancelPc,
                    degraded >>
    /\ UNCHANGED << integratorVars, analyzerVars, processorVars, guardVars >>

\* cancelJob: findFirst with the status filter, then the update to 'failed'
\* (progressPercent is not written)
CancelJob ==
    /\ jobStatus # "none"
    /\ \/ /\ cancelPc = "idle"
          /\ cancelPc' = IF jobStatus \in { "pending", "transcribing", "recognizing",
                                            "generating" }
                         THEN "found" ELSE "returned false"
          /\ UNCHANGED << jobStatus, jobError >>
       \/ /\ cancelPc = "found"
          /\ jobStatus' = "failed"
          /\ jobError' = "Cancelled by user"
          /\ cancelPc' = "returned true"
    /\ UNCHANGED << pipeline, jobProgress, jobPc, caughtError, generatedRecipe,
                    recipeSaved, degraded, writes >>
    /\ UNCHANGED << integratorVars, analyzerVars, processorVars, guardVars >>

NextJobs ==
    \/ StartProcessing \/ UpdateJobStatus \/ GetVideoInfo \/ DegradableStep
    \/ GenerateRecipe \/ SaveRecipe \/ CatchError \/ CancelJob

InitJobs ==
    /\ pipeline \in { "gemini", "aws" }
    /\ jobStatus = "none"
    /\ jobProgress = 0
    /\ jobError = ""
    /\ jobPc = [ at |-> "idle", step |-> 0 ]
    /\ caughtError = ""
    /\ generatedRecipe = "none"
    /\ recipeSaved = FALSE
    /\ cancelPc = "idle"
    /\ degraded = { }
    /\ writes = << >>
    /\ GuardIdle
    /\ frameResults = << >>
    /\ IntegratorIdle
    /\ frameLabels = << >>
    /\ frameCustomLabels = << >>
    /\ AnalyzerIdle
    /\ transcriptionText = << >>
    /\ frameAnalysisResult = << >>
    /\ ProcessorIdle

\* every awaited step of the background processVideo returns or throws
SpecJobs ==
    /\ InitJobs
    /\ [][NextJobs]_vars
    /\ WF_vars(UpdateJobStatus \/ GetVideoInfo \/ DegradableStep \/ GenerateRecipe
               \/ SaveRecipe \/ CatchError)

-----------------------------------------------------------------------------
(* The route guard of the mobile client: components/AuthGuard.tsx over the
   state of contexts/AuthContext.tsx *)

MaxRenders == 7

\* AuthGuard with the mounting check only: no loading view
AuthGuardWithoutLoading ==
    IF requireAuth /\ ~ isAuthenticated
    THEN [ view |-> "redirect", href |-> redirectTo ]
    ELSE IF ~ requireAuth /\ isAuthenticated
         THEN [ view |-> "redirect", href |-> "/(tabs)" ]
         ELSE [ view |-> "children", href |-> "" ]

\* what AuthGuard returns for its props and the value of useAuth()
AuthGuard ==
    IF isLoading
    THEN [ view |-> "loading", href |-> "" ]
    ELSE IF requireAuth /\ ~ isAuthenticated
         THEN [ view |-> "redirect", href |-> redirectTo ]
         ELSE IF ~ requireAuth /\ isAuthenticated
              THEN [ view |-> "redirect", href |-> "/(tabs)" ]
              ELSE [ view |-> "children", href |-> "" ]

\* React renders the component (mount, or a render of the parent)
Render ==
    /\ renders < MaxRenders
    /\ rendered' = AuthGuard
    /\ renders' = renders + 1
    /\ UNCHANGED << requireAuth, redirectTo, isLoading, isAuthenticated >>
    /\ UNCHANGED << integratorVars, analyzerVars, processorVars, jobVars >>

\* loginAsGuest and logout replace the state of AuthProvider; the consumers
\* of the context, AuthGuard among them, render again
setState ==
    /\ renders < MaxRenders
    /\ \/ isLoading' = FALSE /\ isAuthenticated' = TRUE
       \/ isLoading' = FALSE /\ isAuthenticated' = FALSE
    /\ UNCHANGED << requireAuth, redirectTo >>
    /\ rendered' = AuthGuard'
    /\ renders' = renders + 1
    /\ UNCHANGED << integratorVars, analyzerVars, processorVars, jobVars >>

NextGuard == Render \/ setState

\* the props a caller passes and the context value the component is first
\* rendered with
InitGuard ==
    /\ requireAuth \in BOOLEAN
    /\ redirectTo \in { "/(auth)/login", "/(auth)/welcome" }
    /\ isLoading \in BOOLEAN
    /\ isAuthenticated \in BOOLEAN
    /\ rendered = [ view |-> "none", href |-> "" ]
    /\ renders = 0
    /\ JobIdle
    /\ frameResults = << >>
    /\ IntegratorIdle
    /\ frameLabels = << >>
    /\ frameCustomLabels = << >>
    /\ AnalyzerIdle
    /\ transcriptionText = << >>
    /\ frameAnalysisResult = << >>
    /\ ProcessorIdle

SpecGuard == InitGuard /\ [][NextGuard]_vars

-----------------------------------------------------------------------------
(* Properties *)

LastResult == results[Len(results)]

FrameNumbers(frames) == { frames[k].frameNumber : k \in 1..Len(frames) }
Timestamps(frames) == { frames[k].timestamp : k \in 1..Len(frames) }
MinOf(S) == CHOOSE x \in S : \A y \in S : x <= y
MaxOf(S) == CHOOSE x \in S : \A y \in S : y <= x

\* the frames in ascending order of timestamp, frames of equal timestamp in
\* the order the caller gave them
PreSorted(frames) ==
    LET n == Len(frames)
        p == CHOOSE q \in [1..n -> 1..n] :
                /\ \A a, b \in 1..n : a # b => q[a] # q[b]
                /\ \A a, b \in 1..n : a < b =>
                      \/ frames[q[a]].timestamp < frames[q[b]].timestamp
                      \/ /\ frames[q[a]].timestamp = frames[q[b]].timestamp
                         /\ q[a] < q[b]
    IN  [k \in 1..n |-> frames[p[k]]]

\* C1: every segment of every timeline integrate has returned ends no earlier
\* than it starts and lasts at least MIN_SEGMENT_DURATION seconds, whatever
\* the length, order and actions of the frames.
C1_SegmentsLastLongEnough ==
    \A c \in 1..Len(results) : \A k \in 1..Len(results[c].timeline) :
        LET seg == results[c].timeline[k]
        IN  /\ seg.endTime >= seg.startTime
            /\ seg.endTime - seg.startTime >= MIN_SEGMENT_DURATION

\* an unsorted frame list produced a segment and a discarded candidate
C1_Witness ==
    /\ pc = "done"
    /\ frameResults # sortedFrames
    /\ Len(LastResult.timeline) >= 1
    /\ dropped # { }

\* the frames all carry the same main action and, in order of time, follow
\* each other at gaps of at most ACTION_CONTINUITY_THRESHOLD
IsRun(frames) ==
    /\ Len(frames) >= 1
    /\ \A j, k \in 1..Len(frames) :
          determineMainAction(frames[j]) = determineMainAction(frames[k])
    /\ \A t \in Timestamps(frames) :
          \/ t = MaxOf(Timestamps(frames))
          \/ \E u \in Timestamps(frames) :
                t < u /\ u - t <= ACTION_CONTINUITY_THRESHOLD

\* C2: for a run of frames with one main action and gaps of at most 5 s the
\* timeline is exactly one segment from the first to the last timestamp when
\* that span is at least 3 s, and is empty otherwise.
C2_RunGivesOneSegment ==
    \A c \in 1..Len(results) :
        IsRun(frameResults) =>
            LET first == MinOf(Timestamps(frameResults))
                last == MaxOf(Timestamps(frameResults))
                timeline == results[c].timeline
            IN  IF last - first >= MIN_SEGMENT_DURATION
                THEN /\ Len(timeline) = 1
                     /\ timeline[1].startTime = first
                     /\ timeline[1].endTime = last
                ELSE timeline = << >>

\* three frames of one action at three different times, handed over out of
\* order, gave one segment over all of them
C2_Witness ==
    /\ pc = "done"
    /\ IsRun(frameResults)
    /\ Cardinality(Timestamps(frameResults)) = 3
    /\ frameResults # sortedFrames
    /\ Len(LastResult.timeline) = 1
    /\ KeyFrameSet(LastResult.timeline[1]) = FrameNumbers(frameResults)

\* the frame is not continuous with the segment: its gap to the segment's
\* last frame exceeds the threshold, or its action is of another category
NotContinuousWith(segment, frame) ==
    \/ frame.timestamp - segment.endTime > ACTION_CONTINUITY_THRESHOLD
    \/ ~ areSimilarActions(segment.mainAction, determineMainAction(frame))

C3_Step ==
    /\ ( /\ pc = "segmenting"
         /\ i <= Len(sortedFrames)
         /\ currentSegment # << >>
         /\ NotContinuousWith(currentSegment[1], sortedFrames[i]) )
       => LET old == currentSegment[1]
              frame == sortedFrames[i]
          IN  /\ segments' =
                    IF old.endTime - old.startTime >= MIN_SEGMENT_DURATION
                    THEN Append(segments, old) ELSE segments
              /\ currentSegment' # << >>
              /\ currentSegment'[1].startTime = frame.timestamp
              /\ currentSegment'[1].endTime = frame.timestamp
              /\ currentSegment'[1].mainAction = determineMainAction(frame)
              /\ currentSegment'[1].keyFrames = << frame.frameNumber >>
    /\ pc' = "done"
       => \A k \in 1..Len(results'[Len(results')].timeline) :
             KeyFrameSet(results'[Len(results')].timeline[k]) \cap dropped' = { }

\* C3: a frame that is not continuous with the active segment closes it (it
\* joins the output iff it lasted at least 3 s) and starts a new segment at
\* that frame; no frame of a discarded candidate is in a returned segment.
C3_CloseAndReopen == [][C3_Step]_vars

\* a candidate was discarded and a later one was kept
C3_Witness ==
    /\ pc = "done"
    /\ dropped # { }
    /\ \E k \in 1..Len(LastResult.timeline) :
          \A n \in dropped : \A m \in KeyFrameSet(LastResult.timeline[k]) : n < m

\* three frames in order of time, each within the continuity threshold of
\* the others; the outer two carry one detected action, the middle one none
C4_Sandwich(frames) ==
    /\ Len(frames) = 3
    /\ frames[1].detectedActions # << >>
    /\ frames[2].detectedActions = << >>
    /\ frames[3].detectedActions # << >>
    /\ frames[1].detectedActions[1].action = frames[3].detectedActions[1].action
    /\ frames[3].timestamp - frames[1].timestamp <= ACTION_CONTINUITY_THRESHOLD

\* C4: a frame without a detected action between two frames of one action,
\* all within the continuity threshold, ends up in the same candidate
\* segment as they do.
C4_NoActionFrameDoesNotFragment ==
    (pc \in { "phases", "done" } /\ C4_Sandwich(sortedFrames))
        => /\ currentSegment # << >>
           /\ KeyFrameSet(currentSegment[1]) = FrameNumbers(sortedFrames)

C5_Step ==
    /\ frameResults' = frameResults
    /\ pc' = "done" => results'[Len(results')] = integrate(PreSorted(frameResults))

\* C5: integrate never changes the caller's array, and what it returns for
\* it is what it returns for the same frames sorted ascending by timestamp
\* beforehand (frames of equal timestamp in the caller's order).
C5_UnsortedInputAccepted == [][C5_Step]_vars

\* an unsorted array was integrated into a non-empty timeline
C5_Witness ==
    /\ pc = "done"
    /\ frameResults # PreSorted(frameResults)
    /\ Len(LastResult.timeline) >= 1

EmptyRecipeData ==
    [ totalDuration |-> 0,
      allIngredients |-> << >>,
      allTools |-> << >>,
      timeline |-> << >>,
      cookingPhases |-> << >> ]

\* C6: for an empty frame list integrate returns totalDuration 0 and empty
\* ingredients, tools, timeline and phases; whenever every candidate segment
\* was discarded the timeline and the phase list are empty.
C6_EmptyInputEmptyResult ==
    /\ \A c \in 1..Len(results) : frameResults = << >> => results[c] = EmptyRecipeData
    /\ (pc = "done" /\ dropped = FrameNumbers(sortedFrames))
          => /\ LastResult.timeline = << >>
             /\ LastResult.cookingPhases = << >>

\* frames with prep actions were integrated and every candidate was discarded
C6_Witness ==
    /\ pc = "done"
    /\ Len(frameResults) = 3
    /\ \A k \in 1..3 : frameResults[k].detectedActions # << >>
    /\ dropped = FrameNumbers(sortedFrames)
    /\ LastResult.timeline = << >>

\* C7: the normalized name of every ingredient detection of confidence >=
\* CONFIDENCE_THRESHOLD, in any frame, is a key of the returned allIngredients.
C7_NoIngredientLoss ==
    \A c \in 1..Len(results) :
        \A f \in 1..Len(frameResults) :
            \A d \in 1..Len(frameResults[f].detectedIngredients) :
                LET det == frameResults[f].detectedIngredients[d]
                IN  det.confidence >= CONFIDENCE_THRESHOLD
                       => MapHas(results[c].allIngredients,
                                 normalizeIngredientName(det.name))

\* a detection exactly at the threshold is the only source of its key, next
\* to a detection below the threshold
C7_Witness ==
    /\ pc = "done"
    /\ \E f \in 1..Len(frameResults) :
          /\ frameResults[f].detectedIngredients = << Det(Chars(" Tomatoes "), 70) >>
          /\ \A g \in 1..Len(frameResults) :
                g # f => frameResults[g].detectedIngredients
                            = << Det(Chars("Onions"), 85), Det(Chars("tomato"), 69) >>
    /\ Len(frameResults) >= 2
    /\ MapKeys(LastResult.allIngredients) = { Chars("tomato"), Chars("onion") }

\* the spellings of one ingredient, by lowercase singular name
Spellings ==
    { [ key |-> Chars("tomato"),
        names |-> { Chars("tomato"), Chars("Tomato"), Chars("tomatoes"), Chars(" Tomatoes ") } ],
      [ key |-> Chars("onion"),
        names |-> { Chars("onion"), Chars("Onions"), Chars("onions") } ] }

\* the detections of one of the names that reach the threshold
Qualifying(frames, names) ==
    { fd \in UNION { { << f, d >> : d \in 1..Len(frames[f].detectedIngredients) } :
                       f \in 1..Len(frames) } :
        /\ frames[fd[1]].detectedIngredients[fd[2]].name \in names
        /\ frames[fd[1]].detectedIngredients[fd[2]].confidence >= CONFIDENCE_THRESHOLD }

\* C8: names that differ by case, surrounding blanks or a known plural form
\* share one record, keyed by the lowercase singular, whose frequency is the
\* number of their detections at or above the threshold; no other record exists.
C8_SpellingsShareOneRecord ==
    \A c \in 1..Len(results) :
        LET map == results[c].allIngredients
        IN  /\ \A v \in Spellings :
                  LET n == Cardinality(Qualifying(frameResults, v.names))
                  IN  IF n = 0 THEN ~ MapHas(map, v.key)
                      ELSE /\ MapHas(map, v.key)
                           /\ MapGet(map, v.key).frequency = n
            /\ \A j, k \in 1..Len(map) : j # k => map[j].key # map[k].key
            /\ MapKeys(map) \subseteq { v.key : v \in Spellings }

\* "Tomato" and " Tomatoes " in different frames were counted in one record
C8_Witness ==
    /\ pc = "done"
    /\ \E f, g \in 1..Len(frameResults) :
          /\ frameResults[f].detectedIngredients = << Det(Chars("Tomato"), 90) >>
          /\ frameResults[g].detectedIngredients = << Det(Chars(" Tomatoes "), 70) >>
    /\ MapHas(LastResult.allIngredients, Chars("tomato"))
    /\ MapGet(LastResult.allIngredients, Chars("tomato")).frequency >= 2

\* C9: every record of a returned allIngredients has firstAppearance <=
\* lastAppearance and frequency >= 1, for unsorted frame lists too.
C9_IngredientRecordsWellFormed ==
    \A c \in 1..Len(results) : \A k \in 1..Len(results[c].allIngredients) :
        LET info == results[c].allIngredients[k].info
        IN  /\ info.firstAppearance <= info.lastAppearance
            /\ info.frequency >= 1

\* out of an unsorted list an ingredient was seen at two different times
C9_Witness ==
    /\ pc = "done"
    /\ frameResults # sortedFrames
    /\ \E k \in 1..Len(LastResult.allIngredients) :
          LastResult.allIngredients[k].info.firstAppearance
             < LastResult.allIngredients[k].info.lastAppearance

\* C10: the calls of integrate on one unchanged frame list all return the
\* same record: nothing a call leaves behind reaches the next call's result.
C10_RepeatedCallsAgree ==
    \A a, b \in 1..Len(results) : results[a] = results[b]

\* integrate has returned twice, with ingredients and a segment
C10_Witness ==
    /\ Len(results) >= 2
    /\ results[2].allIngredients # << >>
    /\ results[2].timeline # << >>

\* C11: for the same labels of one frame, the analysis in high-density mode
\* (isShortVideo = TRUE) has at least as many ingredients, as many tools and
\* as many actions as the analysis in normal mode.
C11_HighDensityNeverDetectsLess ==
    (analyses[TRUE] # << >> /\ analyses[FALSE] # << >>) =>
        LET short == analyses[TRUE][1]
            normal == analyses[FALSE][1]
        IN  /\ Len(short.detectedIngredients) >= Len(normal.detectedIngredients)
            /\ Len(short.detectedTools) >= Len(normal.detectedTools)
            /\ Len(short.detectedActions) >= Len(normal.detectedActions)

\* both modes analysed a frame in which normal mode finds an ingredient, a
\* tool and an action, and high-density mode finds more of each
C11_Witness ==
    /\ analyses[TRUE] # << >>
    /\ analyses[FALSE] # << >>
    /\ Len(analyses[FALSE][1].detectedIngredients) >= 1
    /\ Len(analyses[FALSE][1].detectedTools) >= 1
    /\ Len(analyses[FALSE][1].detectedActions) >= 1
    /\ Len(analyses[TRUE][1].detectedIngredients) > Len(analyses[FALSE][1].detectedIngredients)
    /\ Len(analyses[TRUE][1].detectedTools) > Len(analyses[FALSE][1].detectedTools)
    /\ Len(analyses[TRUE][1].detectedActions) > Len(analyses[FALSE][1].detectedActions)

\* the segments of a timeline whose main action, in lower case, contains one
\* of the words
MatchingSegments(timeline, words) ==
    { k \in 1..Len(timeline) :
        \E w \in words : Includes(ToLowerCase(timeline[k].mainAction), w) }

PhaseWords ==
    << << "Preparation", prepActions >>, << "Cooking", cookingActions >>,
       << "Finishing", finishingActions >> >>

\* C12: the phases of every result come in the order Preparation, Cooking,
\* Finishing with at most one phase per label; a label has a phase exactly
\* when some segment of the timeline matches its words, and the phase then
\* runs from the start of the first matching segment to the end of the last
\* one, with startTime <= endTime.
C12_PhasesFollowMatchingSegments ==
    \A c \in 1..Len(results) :
        LET timeline == results[c].timeline
            phases == results[c].cookingPhases
            Rank(label) == CHOOSE r \in 1..3 : PhaseWords[r][1] = label
        IN  /\ \A k \in 1..Len(phases) : phases[k].phase \in { "Preparation", "Cooking", "Finishing" }
            /\ \A j, k \in 1..Len(phases) :
                  j < k => Rank(phases[j].phase) < Rank(phases[k].phase)
            /\ \A r \in 1..3 :
                  LET hits == MatchingSegments(timeline, PhaseWords[r][2])
                      emitted == { k \in 1..Len(phases) : phases[k].phase = PhaseWords[r][1] }
                  IN  /\ (emitted # { }) <=> (hits # { })
                      /\ \A k \in emitted :
                            /\ phases[k].startTime = timeline[MinOf(hits)].startTime
                            /\ phases[k].endTime = timeline[MaxOf(hits)].endTime
                            /\ phases[k].startTime <= phases[k].endTime

\* a result with the three phases, one segment each, from six frames
C12_Witness ==
    /\ pc = "done"
    /\ Len(frameResults) = 6
    /\ Len(LastResult.timeline) = 3
    /\ Len(LastResult.cookingPhases) = 3
    /\ LastResult.cookingPhases[3].phase = "Finishing"
    /\ LastResult.cookingPhases[3].startTime = 4 * frameInterval
    /\ LastResult.cookingPhases[3].endTime = 5 * frameInterval

\* C13: in every result the intervals [startTime, endTime] of two phases
\* with different labels have no point in common.
C13_PhasesDoNotOverlap ==
    \A c \in 1..Len(results) :
        LET phases == results[c].cookingPhases
        IN  \A j, k \in 1..Len(phases) :
                phases[j].phase # phases[k].phase =>
                    \/ phases[j].endTime < phases[k].startTime
                    \/ phases[k].endTime < phases[j].startTime

\* the timeline has a preparation segment, later a cooking segment, and
\* later again a preparation segment
PrepCookPrep(timeline) ==
    \E a, b, d \in 1..Len(timeline) :
        /\ a < b /\ b < d
        /\ { a, d } \subseteq MatchingSegments(timeline, prepActions)
        /\ b \in MatchingSegments(timeline, cookingActions)

PhaseOf(result, label) ==
    result.cookingPhases[CHOOSE k \in 1..Len(result.cookingPhases) :
                            result.cookingPhases[k].phase = label]

\* C14: the order of the phases is not enforced: whenever the timeline has a
\* preparation segment, then a cooking segment, then another preparation
\* segment, the result has both a Preparation and a Cooking phase and the
\* Preparation phase ends after the Cooking phase starts.
C14_PreparationCanEndAfterCookingStarts ==
    \A c \in 1..Len(results) :
        PrepCookPrep(results[c].timeline) =>
            /\ \E k \in 1..Len(results[c].cookingPhases) :
                  results[c].cookingPhases[k].phase = "Preparation"
            /\ \E k \in 1..Len(results[c].cookingPhases) :
                  results[c].cookingPhases[k].phase = "Cooking"
            /\ PhaseOf(results[c], "Preparation").endTime
                  > PhaseOf(results[c], "Cooking").startTime

\* integrate returned such a result: Preparation.endTime <= Cooking.startTime
\* fails for it
C14_Witness ==
    /\ pc = "done"
    /\ PrepCookPrep(LastResult.timeline)
    /\ Len(LastResult.cookingPhases) >= 2
    /\ LastResult.cookingPhases[1].phase = "Preparation"
    /\ LastResult.cookingPhases[2].phase = "Cooking"
    /\ ~ (LastResult.cookingPhases[1].endTime <= LastResult.cookingPhases[2].startTime)

\* the entries of a fused ingredient list under a name, compared without case
EntriesNamed(list, name) ==
    { k \in 1..Len(list) : ToLowerCase(list[k].name) = ToLowerCase(name) }

\* the source tag of an entry, "none" when the entry carries no source field
SourceOf(entry) == IF "source" \in DOMAIN entry THEN entry.source ELSE "none"

\* C15: once mergeAudioVisualIngredients was called it has returned a list in
\* which every ingredient of the transcript has exactly one entry; the entry
\* is tagged source 'visual' when the frames show the ingredient too, and
\* source 'audio' with confidence 80 otherwise
C15_FusedIngredientsAreTagged ==
    processorPc \in { "steps", "caught" } =>
        /\ processorPc = "steps"
        /\ \A a \in 1..Len(audioKeywords.ingredients) :
              LET name == audioKeywords.ingredients[a]
                  entries == EntriesNamed(integratedIngredients, name)
                  visual == EntriesNamed(frameAnalysisResult[1].ingredients, name)
              IN  /\ Cardinality(entries) = 1
                  /\ \A k \in entries :
                        IF visual # { }
                        THEN SourceOf(integratedIngredients[k]) = "visual"
                        ELSE /\ SourceOf(integratedIngredients[k]) = "audio"
                             /\ integratedIngredients[k].confidence = 80


\* the steps integrateAudioVisualAnalysis returned and the visual actions it
\* was given
FusedSteps == integratedAnalysis[1].steps
VisualActions == frameAnalysisResult[1].actions
Fused == processorPc = "done" /\ integratedAnalysis # << >>

\* the audio step and the visual action are judged related (lines 1168-1169)
Related(step, action) ==
    \/ Includes(step.description, ToLowerCase(action.action))
    \/ isRelatedAction(step.description, action.action)

\* C16: an audio step and a visual action that are judged related are fused
\* into a step of source 'both' that carries the higher of their confidences
C16_RelatedPairBecomesBoth ==
    Fused =>
        \A s \in 1..Len(audioSteps), a \in 1..Len(VisualActions) :
            Related(audioSteps[s], VisualActions[a]) =>
                \E k \in 1..Len(FusedSteps) :
                    /\ FusedSteps[k].source = "both"
                    /\ FusedSteps[k].confidence =
                          IF audioSteps[s].confidence >= VisualActions[a].confidence
                          THEN audioSteps[s].confidence
                          ELSE VisualActions[a].confidence

\* the visual actions without / with a related audio step
Unmatched == { a \in 1..Len(VisualActions) : ~ HasRelatedAudioStep(audioSteps, VisualActions[a]) }
Matched == { a \in 1..Len(VisualActions) : HasRelatedAudioStep(audioSteps, VisualActions[a]) }

\* the steps of the fused list that stand for a visual action
StepsOfAction(action) ==
    { k \in 1..Len(FusedSteps) :
        /\ FusedSteps[k].source = "visual"
        /\ Len(FusedSteps[k].description) > Len(action.action)
        /\ SubSeq(FusedSteps[k].description, 1, Len(action.action)) = action.action }

\* C17: the fused list holds every audio step exactly once, every visual
\* action without a related audio step exactly once as a step of source
\* 'visual', and nothing for a visual action with a related audio step; its
\* length is the number of audio steps plus the number of unmatched actions,
\* and the audio steps keep source 'audio'
C17_FusedListComposition ==
    Fused =>
        /\ Len(FusedSteps) = Len(audioSteps) + Cardinality(Unmatched)
        /\ \A s \in 1..Len(audioSteps) :
              /\ Cardinality({ k \in 1..Len(FusedSteps) : FusedSteps[k] = audioSteps[s] }) = 1
              /\ audioSteps[s].source = "audio"
        /\ \A a \in Unmatched :
              /\ Cardinality(StepsOfAction(VisualActions[a])) = 1
              /\ \A k \in StepsOfAction(VisualActions[a]) :
                    FusedSteps[k].confidence = VisualActions[a].confidence
        /\ \A a \in Matched : StepsOfAction(VisualActions[a]) = { }

\* an audio step with a related visual action, an audio step without one and
\* a visual action without a related audio step have been fused
C17_Witness ==
    /\ Fused
    /\ Len(audioSteps) = 2
    /\ Matched # { }
    /\ Unmatched # { }
    /\ \E s \in 1..Len(audioSteps) :
          \A a \in 1..Len(VisualActions) : ~ Related(audioSteps[s], VisualActions[a])
    /\ Len(FusedSteps) = 3

\* C18: the fused step list is sorted by non-increasing confidence
C18_StepsSortedByConfidence ==
    Fused =>
        \A k \in 1..(Len(FusedSteps) - 1) :
            FusedSteps[k].confidence >= FusedSteps[k + 1].confidence

\* a visual step of higher confidence was pushed after the audio steps and is
\* returned before them
C18_Witness ==
    /\ Fused
    /\ Len(FusedSteps) >= 3
    /\ FusedSteps[1].source = "visual"
    /\ FusedSteps[2].source = "audio"
    /\ FusedSteps[1].confidence > FusedSteps[2].confidence
    /\ FusedSteps[2].confidence > FusedSteps[Len(FusedSteps)].confidence

\* C19: stepNumber is strictly increasing along the fused step list
C19_StepNumbersIncrease ==
    Fused =>
        \A k \in 1..(Len(FusedSteps) - 1) :
            FusedSteps[k].stepNumber < FusedSteps[k + 1].stepNumber

\* the position of the first occurrence of a term in a text (0: none)
FirstOccurrence(text, term) ==
    LET at == { k \in 1..(Len(text) - Len(term) + 1) :
                    SubSeq(text, k, k + Len(term) - 1) = term }
    IN  IF at = { } THEN 0 ELSE MinOf(at)

\* a term list holds no term twice and follows the first occurrences of its
\* terms in the text
InFirstOccurrenceOrder(list, text) ==
    /\ \A j, k \in 1..Len(list) : j # k => list[j] # list[k]
    /\ \A k \in 1..Len(list) : FirstOccurrence(text, list[k]) > 0
    /\ \A k \in 1..(Len(list) - 1) :
          FirstOccurrence(text, list[k]) < FirstOccurrence(text, list[k + 1])

\* C20: extractAudioKeywords returns each matched ingredient term and each
\* matched action term once, in the order of their first occurrences in the
\* transcript
C20_KeywordsInFirstOccurrenceOrder ==
    processorPc = "merge" =>
        /\ InFirstOccurrenceOrder(audioKeywords.ingredients, ToLowerCase(transcriptionText))
        /\ InFirstOccurrenceOrder(audioKeywords.actions, ToLowerCase(transcriptionText))

\* the sentences of the transcript that are not empty after trimming, that
\* hold a discourse marker or a cooking verb and are longer than minLength
CandidateSentences(minLength) ==
    SelectSeq(Split(ToLowerCase(transcriptionText),
                    { "U+3002", "U+FF01", "U+FF1F", "\n" }, << >>),
              LAMBDA s : /\ Len(Trim(s)) > 0
                         /\ hasStepIndicator(Trim(s)) \/ hasAction(Trim(s))
                         /\ Len(Trim(s)) > minLength)

\* the candidate steps are the given sentences, numbered 1..n in their order
StepsAre(sentences) ==
    /\ Len(audioSteps) = Len(sentences)
    /\ \A k \in 1..Len(audioSteps) :
          /\ audioSteps[k].stepNumber = k
          /\ audioSteps[k].description = Trim(sentences[k])

\* C21 as stated: every non-empty sentence with a discourse marker or a
\* cooking verb becomes a candidate step, numbered 1..n in transcript order
C21_EveryMarkedSentenceIsAStep ==
    processorPc = "integrate" => StepsAre(CandidateSentences(0))

\* C21 as amended: every sentence with a discourse marker or a cooking verb
\* whose trimmed text is longer than 5 characters becomes a candidate step,
\* no other sentence does, the candidates are numbered 1..n in transcript
\* order, and the list is empty when no sentence qualifies
C21_LongMarkedSentencesAreSteps ==
    processorPc = "integrate" => StepsAre(CandidateSentences(5))

\* a transcript of a qualifying sentence and the sentence "then" gave
\* one step
C21_Witness ==
    /\ processorPc = "integrate"
    /\ Len(CandidateSentences(0)) = 2
    /\ Len(CandidateSentences(5)) = 1
    /\ Len(audioSteps) = 1
    /\ audioSteps[1].stepNumber = 1

\* the actions analyzeFrame returned for the frame in a mode, and the ones
\* among them that were inferred from the co-occurrence of ingredients and
\* tools
ActionsIn(mode) == analyses[mode][1].detectedActions

InferredIn(mode) ==
    inferActionsFromContext(analyses[mode][1].detectedIngredients,
                            analyses[mode][1].detectedTools, mode)

\* the action stands for a label of the frame that cleared the threshold
DirectlyDetected(action, mode) ==
    \E k \in 1..Len(frameLabels) :
        /\ frameLabels[k].Name = action.action
        /\ frameLabels[k].Confidence = action.confidence
        /\ frameLabels[k].Confidence >= actionConfidenceThreshold(mode)

\* the kind of an action: cutting, frying, mixing (rows of ACTION_KEYWORDS)
KindOfAction(name) ==
    IF IncludesSome(ToLowerCase(name), Words(<< "cutting", "chopping", "slicing", "dicing", "mincing" >>))
    THEN "cutting"
    ELSE IF Includes(ToLowerCase(name), Chars("frying")) THEN "frying"
    ELSE IF IncludesSome(ToLowerCase(name), Words(<< "mixing", "stirring", "whisking", "folding", "blending" >>))
    THEN "mixing"
    ELSE "other"

\* C22: in the action list of a frame no inferred action precedes a directly
\* detected action of the same kind, so the main action (the first element)
\* is not an inferred one when a detected action of its kind is present
C22_InferredNeverOutranksDetected ==
    \A mode \in BOOLEAN :
        analyses[mode] # << >> =>
            \A j, k \in 1..Len(ActionsIn(mode)) :
                ( /\ SeqIncludes(InferredIn(mode), ActionsIn(mode)[j])
                  /\ DirectlyDetected(ActionsIn(mode)[k], mode)
                  /\ KindOfAction(ActionsIn(mode)[j].action) # "other"
                  /\ KindOfAction(ActionsIn(mode)[j].action)
                        = KindOfAction(ActionsIn(mode)[k].action) )
                => k < j

\* a list of a frame's analysis holds no two entries of the same lowercased
\* name (field) and is sorted by non-increasing confidence
DeduplicatedAndSorted(list, field) ==
    /\ \A j, k \in 1..Len(list) :
          j # k => ToLowerCase(list[j][field]) # ToLowerCase(list[k][field])
    /\ \A k \in 1..(Len(list) - 1) : list[k].confidence >= list[k + 1].confidence

\* the detected labels are a set: no name is reported twice for the frame
DistinctLabels ==
    \A j, k \in 1..Len(frameLabels) :
        j # k => LabelName(frameLabels[j]) # LabelName(frameLabels[k])

\* C23: for every set of detected labels and in both modes the ingredient,
\* tool and action lists of a frame are deduplicated by lowercased name and
\* sorted by non-increasing confidence
C23_ListsDeduplicatedAndSorted ==
    \A mode \in BOOLEAN :
        (analyses[mode] # << >> /\ DistinctLabels) =>
            /\ DeduplicatedAndSorted(analyses[mode][1].detectedIngredients, "name")
            /\ DeduplicatedAndSorted(analyses[mode][1].detectedTools, "name")
            /\ DeduplicatedAndSorted(analyses[mode][1].detectedActions, "action")

\* a label without a name, or with a confidence outside 0..100
Malformed(label) == label.Name = << >> \/ label.Confidence \notin 0..100

\* the entries of a list (name in field) that stand for a malformed label of
\* the frame: they carry its name and a confidence outside 0..100 or no name
FromMalformedLabel(list, field) ==
    { k \in 1..Len(list) :
        \E label \in { frameLabels[j] : j \in 1..Len(frameLabels) }
                     \cup { frameCustomLabels[j] : j \in 1..Len(frameCustomLabels) } :
            /\ Malformed(label)
            /\ list[k][field] = label.Name
            /\ (list[k].confidence \notin 0..100 \/ list[k][field] = << >>) }

\* C24: a label with a missing or empty name or with a confidence outside
\* 0..100 appears in none of the frame's lists
C24_MalformedLabelsAreIgnored ==
    \A mode \in BOOLEAN :
        analyses[mode] # << >> =>
            /\ FromMalformedLabel(analyses[mode][1].detectedIngredients, "name") = { }
            /\ FromMalformedLabel(analyses[mode][1].detectedTools, "name") = { }
            /\ FromMalformedLabel(analyses[mode][1].detectedActions, "action") = { }

\* the names of the degradable steps of a version together with its recipe
\* generators
AnalysisSteps(version) ==
    { Pipeline(version)[at].name :
        at \in { step \in 1..Len(Pipeline(version)) :
                   Pipeline(version)[step].op \in { "degradable", "generateRecipe" } } }
    \cup (IF version = "gemini" THEN { "geminiService.generateRecipeFromAnalysis" }
          ELSE { })

\* the video info was fetched (or is still to be fetched), the recipe write
\* did not fail and no cancellation was written
NoFatalFailure ==
    /\ caughtError \notin { "Failed to get video info", "Failed to create recipe" }
    /\ cancelPc # "returned true"

C25_NeverFailed ==
    NoFatalFailure =>
        /\ jobStatus # "failed"
        /\ jobPc.at = "resolved" =>
              /\ jobStatus = "completed"
              /\ jobProgress = 100
              /\ recipeSaved
              /\ generatedRecipe # "none"
              /\ (AnalysisSteps(pipeline) \subseteq degraded
                    => generatedRecipe = "mock")

\* C25: whatever transcript/video processing, frame analysis or recipe
\* generation (fallbacks included) fails, a job whose video info was fetched
\* and whose database writes succeed is never 'failed'; processVideo comes to
\* its end, and there the job is 'completed' with progress 100 and a saved
\* recipe, the mock recipe when every analysis step and generator failed.
C25_DegradedAnalysisNeverFailsTheRequest ==
    /\ [] C25_NeverFailed
    /\ [] (jobStatus # "none" => <> (jobPc.at \in { "resolved", "settled" }))

C25_Witness ==
    /\ NoFatalFailure
    /\ jobPc.at = "resolved"
    /\ AnalysisSteps(pipeline) \subseteq degraded
    /\ jobStatus = "completed"
    /\ generatedRecipe = "mock"

TerminalStatuses == { "completed", "failed" }

\* the status writes of updateJobStatus so far: progress never goes down
\* from one write to a later one that is not 'failed', 'completed' comes
\* with 100, 'failed' with 0 and an error message
WritesWellFormed ==
    /\ \A first \in 1..Len(writes) : \A later \in first..Len(writes) :
          writes[later].status # "failed"
              => writes[first].progress <= writes[later].progress
    /\ \A at \in 1..Len(writes) :
          /\ writes[at].status = "completed" => writes[at].progress = 100
          /\ writes[at].status = "failed"
                => writes[at].progress = 0 /\ writes[at].errorMessage # ""

C30_CancelledJobStaysCancelled ==
    [][ cancelPc = "returned true"
          => /\ jobStatus' = jobStatus
             /\ jobStatus' # "completed"
             /\ recipeSaved' = recipeSaved ]_vars

\* the output the three values determine when every redirect for a missing
\* login goes to the route `login`
GuardOutput(login) ==
    IF isLoading
    THEN [ view |-> "loading", href |-> "" ]
    ELSE IF requireAuth = isAuthenticated
         THEN [ view |-> "children", href |-> "" ]
         ELSE IF requireAuth
              THEN [ view |-> "redirect", href |-> login ]
              ELSE [ view |-> "redirect", href |-> "/(tabs)" ]

\* C26, as stated: the output of AuthGuard is determined by isLoading,
\* requireAuth and isAuthenticated: the loading view (no redirect, no
\* children) while isLoading; otherwise a redirect to the login route when
\* requireAuth and not authenticated, a redirect to the tabs route when not
\* requireAuth and authenticated, and the children exactly when requireAuth
\* equals isAuthenticated.
C26_OutputOfThreeValues ==
    renders > 0 => rendered = GuardOutput("/(auth)/login")

\* C26, amended: the redirect for a missing login goes to the route of the
\* prop redirectTo, which is the login route by default.
C26_OutputOfThreeValuesAndRedirectTo ==
    renders > 0 => rendered = GuardOutput(redirectTo)

C26_Witness ==
    /\ renders > 1
    /\ requireAuth
    /\ ~ isLoading
    /\ ~ isAuthenticated
    /\ redirectTo # "/(auth)/login"
    /\ rendered.view = "redirect"

KeyFramesOf(segment) == { segment.keyFrames[k] : k \in 1..Len(segment.keyFrames) }

\* C27: in every timeline integrate returns, a segment ends no later than
\* the next one starts, and no frame number is among the keyFrames of two
\* segments.
C27_TimelineOrderedAndDisjoint ==
    \A r \in 1..Len(results) :
        LET timeline == results[r].timeline
        IN /\ \A k \in 1..(Len(timeline) - 1) :
                 timeline[k].endTime <= timeline[k + 1].startTime
           /\ \A a, b \in 1..Len(timeline) :
                 a # b => KeyFramesOf(timeline[a]) \cap KeyFramesOf(timeline[b]) = { }

C27_Witness ==
    /\ results # << >>
    /\ Len(LastResult.timeline) = 2
    /\ LastResult.timeline[1].endTime = LastResult.timeline[2].startTime
    /\ frameResults[1].timestamp > 0

NoRepeats(list) == \A a, b \in 1..Len(list) : a # b => list[a] # list[b]

\* C28: in every result of integrate, every ingredient name of a timeline
\* segment is a key of allIngredients, every tool name of a segment is in
\* allTools, no segment lists an ingredient or a tool twice, and no segment
\* ends after totalDuration.
C28_ResultPartsAgree ==
    \A r \in 1..Len(results) :
        \A s \in 1..Len(results[r].timeline) :
            LET segment == results[r].timeline[s]
            IN /\ \A k \in 1..Len(segment.ingredients) :
                     MapHas(results[r].allIngredients, segment.ingredients[k])
               /\ \A k \in 1..Len(segment.tools) :
                     SeqIncludes(results[r].allTools, segment.tools[k])
               /\ NoRepeats(segment.ingredients)
               /\ NoRepeats(segment.tools)
               /\ segment.endTime <= results[r].totalDuration

\* a segment of two frames that show the same ingredient and tool in two
\* spellings, in a video that goes on after the segment
C28_Witness ==
    /\ results # << >>
    /\ Len(LastResult.timeline) = 1
    /\ Len(LastResult.timeline[1].keyFrames) = 2
    /\ Len(LastResult.timeline[1].ingredients) = 1
    /\ Len(LastResult.timeline[1].tools) = 1
    /\ Len(LastResult.allIngredients) = 2
    /\ LastResult.timeline[1].endTime < LastResult.totalDuration

====
